---- MODULE Spec2Model ----
(***************************************************************************)
(* Model of the two memory stores of astrbot_plugin_enhanced_memory:       *)
(*   - the FAISS/graph-backed EnhancedMemoryManager of memory_manager.py   *)
(*     with its FAISSManager (faiss_manager.py) and MemoryGraph            *)
(*     (memory_graph.py);                                                  *)
(*   - the plugin EnhancedMemoryManager of main.py with its                *)
(*     MemoryAssociationManager.                                           *)
(* The variable impl says which of the two classes the process has         *)
(* instantiated.  Files on disk are variables of their own, so a restart   *)
(* (a new process constructing the manager over the same directory) is an  *)
(* action.  Importance is counted in tenths (10 stands for 1.0); a text is *)
(* a sequence of characters.                                               *)
(***************************************************************************)
EXTENDS Integers, Sequences, FiniteSets, TLC

VARIABLES impl, simple_mode, memories, disk_memories, faiss_manager,
          faiss_disk, memory_graph, graph_disk, associations,
          disk_associations, used, last,
          _concurrent_requests, _request_lock, pc

vars == <<impl, simple_mode, memories, disk_memories, faiss_manager,
          faiss_disk, memory_graph, graph_disk, associations,
          disk_associations, used, last,
          _concurrent_requests, _request_lock, pc>>

fmVars == <<faiss_manager, faiss_disk, memory_graph, graph_disk>>
assocVars == <<associations, disk_associations>>
(* The coroutines of the plugin store: the slot counter, the asyncio.Lock  *)
(* that guards it and the position of each caller                          *)
asyncVars == <<_concurrent_requests, _request_lock, pc>>

----------------------------------------------------------------------------
(* Bounds of the model *)

MaxIds == 2
MaxSlots == 2
MaxImport == 2
max_memories == 1
MaxCallers == 3
MaxDays == 3
max_concurrent_requests == 1

IDs == 1..MaxIds
Callers == 1..MaxCallers
None == "None"

(* Characters: "T" is the upper-case form of "t"; "shi", "ai", "xiang",    *)
(* "jin", "tian" stand for the Chinese characters of the keyword lists of  *)
(* _classify_memory_type.                                                  *)
Queries == {<<"t">>, <<"shi">>}
Types == {"fact", "other"}
Limits == {1, MaxIds}
MinImportances == {0, 6}

----------------------------------------------------------------------------
(* Python building blocks *)

EmptyMap == [x \in {} |-> None]

MapSet(f, k, v) == [x \in (DOMAIN f) \cup {k} |-> IF x = k THEN v ELSE f[x]]

MapDel(f, k) == [x \in (DOMAIN f) \ {k} |-> f[x]]

Range(s) == {s[i] : i \in DOMAIN s}

(* self.memories is an insertion-ordered dict: a sequence of records with  *)
(* distinct keys, the key being the field id.  The "id" entry of a record  *)
(* is its key unless the record has the field stored_id, which then holds  *)
(* that entry.                                                             *)
Keys(m) == {m[i].id : i \in DOMAIN m}

Lookup(m, id) == m[CHOOSE i \in DOMAIN m : m[i].id = id]

DictSet(m, rec) ==
  IF rec.id \in Keys(m)
  THEN [i \in DOMAIN m |-> IF m[i].id = rec.id THEN rec ELSE m[i]]
  ELSE Append(m, rec)

DictDel(m, id) == SelectSeq(m, LAMBDA r : r.id # id)

lower(ch) == IF ch = "T" THEN "t" ELSE ch

Lower(s) == [i \in DOMAIN s |-> lower(s[i])]

(* Python's `q in c` on strings *)
Contains(q, c) ==
  \E k \in 0..(Len(c) - Len(q)) : \A i \in 1..Len(q) : c[k + i] = q[i]

Max(a, b) == IF a >= b THEN a ELSE b

Min(a, b) == IF a <= b THEN a ELSE b

(* list.sort(key=importance, reverse=True): stable, descending *)
RECURSIVE InsertDesc(_, _)
InsertDesc(sorted, r) ==
  IF sorted = <<>> THEN <<r>>
  ELSE IF Head(sorted).importance >= r.importance
       THEN <<Head(sorted)>> \o InsertDesc(Tail(sorted), r)
       ELSE <<r>> \o sorted

RECURSIVE SortDesc(_)
SortDesc(s) ==
  IF s = <<>> THEN <<>>
  ELSE InsertDesc(SortDesc(SubSeq(s, 1, Len(s) - 1)), s[Len(s)])

Take(s, n) == SubSeq(s, 1, Min(n, Len(s)))

(* open(path, 'r') without newline='': the text layer hands "\r\n" and a  *)
(* lone "\r" to the reader as "\n".  "CR" and "LF" are those characters.   *)
RECURSIVE UniversalNewlines(_)
UniversalNewlines(text) ==
  IF text = <<>> THEN <<>>
  ELSE IF Head(text) = "CR"
       THEN <<"LF">> \o UniversalNewlines(IF Len(text) > 1 /\ text[2] = "LF"
                                          THEN Tail(Tail(text)) ELSE Tail(text))
       ELSE <<Head(text)>> \o UniversalNewlines(Tail(text))

(* str(x) of a float as csv.writer writes it, and float(s) of that text *)
str(x) == <<"str", x>>

float(s) == s[2]

(* Orderings of a finite set, for loops over a Python set *)
Orderings(S) ==
  {s \in [1..Cardinality(S) -> S] : \A i, j \in DOMAIN s : i # j => s[i] # s[j]}

----------------------------------------------------------------------------
(* FAISSManager (faiss_manager.py) *)

NewFaiss == [ntotal |-> 0, id_to_index |-> EmptyMap, index_to_id |-> EmptyMap]

(* What json.dump / json.load make of the mapping: object keys are         *)
(* strings, so a slot key n written as an int comes back as the string of  *)
(* n.  A key is modelled as <<kind, n>> with kind "int" or "str".          *)
JsonKeys(index_to_id) ==
  [k \in {<<"str", j[2]>> : j \in DOMAIN index_to_id} |->
     IF <<"int", k[2]>> \in DOMAIN index_to_id
     THEN index_to_id[<<"int", k[2]>>]
     ELSE index_to_id[<<"str", k[2]>>]]

save_index(fm) == [fm EXCEPT !.index_to_id = JsonKeys(fm.index_to_id)]

load_index(disk) == disk

FAISS_add_memory(fm, memory_id, encodeOk) ==
  IF ~encodeOk THEN [fm |-> fm, ret |-> FALSE]
  ELSE LET idx == fm.ntotal
       IN [fm |-> [ntotal |-> idx + 1,
                   id_to_index |-> MapSet(fm.id_to_index, memory_id, idx),
                   index_to_id |-> MapSet(fm.index_to_id, <<"int", idx>>, memory_id)],
           ret |-> TRUE]

FAISS_remove_memory(fm, memory_id) ==
  IF memory_id \notin DOMAIN fm.id_to_index THEN [fm |-> fm, ret |-> FALSE]
  ELSE LET idx == fm.id_to_index[memory_id]
       IN [fm |-> [fm EXCEPT !.index_to_id = MapDel(@, <<"int", idx>>),
                             !.id_to_index = MapDel(@, memory_id)],
           ret |-> TRUE]

(* hits: the slots index.search returns, nearest first; the lookup         *)
(* `idx in self.index_to_id` is made with an integer.                      *)
FAISS_search_similar(fm, encodeOk, hits) ==
  IF ~encodeOk THEN <<>>
  ELSE LET live == SelectSeq(hits, LAMBDA idx : <<"int", idx>> \in DOMAIN fm.index_to_id)
       IN [i \in DOMAIN live |-> fm.index_to_id[<<"int", live[i]>>]]

(* The results of index.search(query, k): k nearest of ntotal vectors *)
HitLists(fm, k) ==
  {h \in UNION {[1..n -> 0..(fm.ntotal - 1)] : n \in {Min(k, fm.ntotal)}} :
     \A i, j \in DOMAIN h : i # j => h[i] # h[j]}

----------------------------------------------------------------------------
(* MemoryGraph (memory_graph.py): nodes in insertion order, adj[n] the     *)
(* neighbours of n in insertion order with the edge attributes.            *)

NewGraph == [nodes |-> <<>>, adj |-> EmptyMap]

InGraph(g, n) == n \in DOMAIN g.adj


SetNb(lst, b, rel, st) ==
  IF \E i \in DOMAIN lst : lst[i].nb = b
  THEN [i \in DOMAIN lst |-> IF lst[i].nb = b
                             THEN [nb |-> b, relation_type |-> rel, strength |-> st]
                             ELSE lst[i]]
  ELSE Append(lst, [nb |-> b, relation_type |-> rel, strength |-> st])

add_node(g, n) ==
  IF InGraph(g, n) THEN g
  ELSE [nodes |-> Append(g.nodes, n), adj |-> MapSet(g.adj, n, <<>>)]

add_edge(g, a, b, rel, st) ==
  LET g1 == add_node(add_node(g, a), b)
      adjA == MapSet(g1.adj, a, SetNb(g1.adj[a], b, rel, st))
  IN [g1 EXCEPT !.adj = MapSet(adjA, b, SetNb(adjA[b], a, rel, st))]

(* Variant of remove_node that drops the node and leaves the edges of its  *)
(* neighbours in place                                                     *)
remove_node_KeepEdges(g, n) ==
  [nodes |-> SelectSeq(g.nodes, LAMBDA x : x # n),
   adj |-> [x \in (DOMAIN g.adj) \ {n} |-> g.adj[x]]]

remove_node(g, n) ==
  [nodes |-> SelectSeq(g.nodes, LAMBDA x : x # n),
   adj |-> [x \in (DOMAIN g.adj) \ {n} |->
              SelectSeq(g.adj[x], LAMBDA e : e.nb # n)]]

Graph_add_memory(g, memory_id) == add_node(g, memory_id)

Graph_remove_memory(g, memory_id) ==
  IF InGraph(g, memory_id) THEN remove_node(g, memory_id) ELSE g

Graph_add_association(g, id1, id2, rel, st) ==
  IF InGraph(g, id1) /\ InGraph(g, id2)
  THEN [g |-> add_edge(g, id1, id2, rel, st), ret |-> TRUE]
  ELSE [g |-> g, ret |-> FALSE]

has_edge(g, a, b) == InGraph(g, a) /\ \E i \in DOMAIN g.adj[a] : g.adj[a][i].nb = b

remove_edge(g, a, b) ==
  LET adjA == MapSet(g.adj, a, SelectSeq(g.adj[a], LAMBDA e : e.nb # b))
  IN [g EXCEPT !.adj = MapSet(adjA, b, SelectSeq(adjA[b], LAMBDA e : e.nb # a))]

Graph_remove_association(g, id1, id2) ==
  IF has_edge(g, id1, id2)
  THEN [g |-> remove_edge(g, id1, id2), ret |-> TRUE]
  ELSE [g |-> g, ret |-> FALSE]

(* MemoryGraph.get_associated_memories: the first max_results neighbours   *)
(* in adjacency order                                                      *)
Graph_get_associated_memories(g, memory_id, max_results) ==
  IF ~InGraph(g, memory_id) THEN <<>>
  ELSE LET neighbors == Take(g.adj[memory_id], max_results)
       IN [i \in DOMAIN neighbors |->
             [memory_id |-> neighbors[i].nb,
              relation_type |-> neighbors[i].relation_type,
              strength |-> neighbors[i].strength]]

(* save_graph / load_graph: node_link_data lists the nodes in order and    *)
(* each edge once, in adjacency order; node_link_graph adds them back.     *)
RECURSIVE AddLinks(_, _)
AddLinks(g, links) ==
  IF links = <<>> THEN g
  ELSE AddLinks(add_edge(g, Head(links)[1], Head(links)[2],
                         Head(links)[3], Head(links)[4]), Tail(links))

RECURSIVE LinksOf(_, _, _)
LinksOf(g, i, seen) ==
  IF i > Len(g.nodes) THEN <<>>
  ELSE LET n == g.nodes[i]
           mine == SelectSeq(g.adj[n], LAMBDA e : e.nb \notin seen)
       IN [k \in DOMAIN mine |->
             <<n, mine[k].nb, mine[k].relation_type, mine[k].strength>>]
          \o LinksOf(g, i + 1, seen \cup {n})

RECURSIVE AddNodes(_, _)
AddNodes(g, ns) ==
  IF ns = <<>> THEN g ELSE AddNodes(add_node(g, Head(ns)), Tail(ns))

save_graph(g) == [nodes |-> g.nodes, links |-> LinksOf(g, 1, {})]

load_graph(disk) == AddLinks(AddNodes(NewGraph, disk.nodes), disk.links)

----------------------------------------------------------------------------
(* EnhancedMemoryManager of memory_manager.py *)

FreshId == CHOOSE i \in IDs \ used : \A j \in IDs \ used : i <= j

(* datetime.now() as a logical clock: the number of records created or     *)
(* imported so far, plus one.  Imported records carry the created_at of    *)
(* their file, which is 0 for a file written before the store existed.     *)
now == Cardinality(used) + 1

(* The text of a memories.json that json.load rejects: a write that failed *)
(* after open(path, 'w') had truncated the file.                           *)
Unparseable ==
  <<[id |-> 0, content |-> <<>>, importance |-> 0, type |-> "unparseable",
     created_at |-> 0, decay |-> 0]>>

(* save_memories: json.dump(self.memories) inside try/except.  Keys are    *)
(* strings already and the fields are strings and numbers, which come back *)
(* as written.  outcome "ok": the mapping is written; "unchanged": open    *)
(* raised; "partial": json.dump or the write raised after the truncation.  *)
save_memories(m, file, outcome) ==
  IF outcome = "ok" THEN m
  ELSE IF outcome = "unchanged" THEN file ELSE Unparseable

(* load_memories: json.load inside try/except, {} when it raises *)
load_memories(disk) == IF disk = Unparseable THEN <<>> ELSE disk

_passes_filters(memory, min_importance, memory_type) ==
  /\ ~(memory.importance < min_importance)
  /\ ~(memory_type # None /\ memory.type # memory_type)

(* Variant of add_memory without the try/except around the vector index   *)
(* insertion: its exception leaves add_memory before the graph insertion   *)
(* and before save_memories.                                               *)
FM_add_memory_Unguarded(content, importance, memory_type, auto_classify, classified, faissOutcome, graphOutcome, saveOutcome) ==
  /\ impl = "memory_manager"
  /\ used # IDs
  /\ faissOutcome = "ok" => faiss_manager.ntotal < MaxSlots
  /\ LET memory_id == FreshId
         mtype == IF auto_classify /\ memory_type = None /\ ~simple_mode
                  THEN classified ELSE memory_type
         memory == [id |-> memory_id, content |-> content,
                    importance |-> Max(0, Min(10, importance)),
                    type |-> IF mtype = None THEN "other" ELSE mtype,
                    created_at |-> now, decay |-> 0]
         mems == DictSet(memories, memory)
         fr == IF simple_mode THEN [fm |-> faiss_manager, ret |-> FALSE]
               ELSE FAISS_add_memory(faiss_manager, memory_id, faissOutcome = "ok")
         escapes == ~simple_mode /\ faissOutcome = "raise"
         gOk == ~simple_mode /\ graphOutcome = "ok" /\ ~escapes
         g == IF gOk THEN Graph_add_memory(memory_graph, memory_id) ELSE memory_graph
     IN /\ memories' = mems
        /\ faiss_manager' = fr.fm
        /\ faiss_disk' = IF fr.ret THEN save_index(fr.fm) ELSE faiss_disk
        /\ memory_graph' = g
        /\ graph_disk' = IF gOk THEN save_graph(g) ELSE graph_disk
        /\ disk_memories' = IF escapes THEN disk_memories
                            ELSE save_memories(mems, disk_memories, saveOutcome)
        /\ used' = used \cup {memory_id}
        /\ last' = [op |-> "add", ret |-> memory_id, raised |-> escapes,
                    content |-> content, importance |-> importance,
                    faiss |-> IF simple_mode THEN "none" ELSE faissOutcome,
                    graph |-> IF simple_mode THEN "none" ELSE graphOutcome]
        /\ UNCHANGED <<asyncVars, impl, simple_mode, assocVars>>

FM_add_memory(content, importance, memory_type, auto_classify, classified, faissOutcome, graphOutcome, saveOutcome) ==
  /\ impl = "memory_manager"
  /\ used # IDs
  /\ faissOutcome = "ok" => faiss_manager.ntotal < MaxSlots
  /\ LET memory_id == FreshId
         mtype == IF auto_classify /\ memory_type = None /\ ~simple_mode
                  THEN classified ELSE memory_type
         memory == [id |-> memory_id, content |-> content,
                    importance |-> Max(0, Min(10, importance)),
                    type |-> IF mtype = None THEN "other" ELSE mtype,
                    created_at |-> now, decay |-> 0]
         mems == DictSet(memories, memory)
         fr == IF simple_mode THEN [fm |-> faiss_manager, ret |-> FALSE]
               ELSE FAISS_add_memory(faiss_manager, memory_id, faissOutcome = "ok")
         gOk == ~simple_mode /\ graphOutcome = "ok"
         g == IF gOk THEN Graph_add_memory(memory_graph, memory_id) ELSE memory_graph
     IN /\ memories' = mems
        /\ faiss_manager' = fr.fm
        /\ faiss_disk' = IF fr.ret THEN save_index(fr.fm) ELSE faiss_disk
        /\ memory_graph' = g
        /\ graph_disk' = IF gOk THEN save_graph(g) ELSE graph_disk
        /\ disk_memories' = save_memories(mems, disk_memories, saveOutcome)
        /\ used' = used \cup {memory_id}
        /\ last' = [op |-> "add", ret |-> memory_id, raised |-> FALSE,
                    content |-> content, importance |-> importance,
                    faiss |-> IF simple_mode THEN "none" ELSE faissOutcome,
                    graph |-> IF simple_mode THEN "none" ELSE graphOutcome]
        /\ UNCHANGED <<asyncVars, impl, simple_mode, assocVars>>

(* The loop `for result in semantic_results` followed by the keyword loop  *)
RECURSIVE SemanticResults(_, _, _, _)
SemanticResults(ids, mems, min_importance, memory_type) ==
  IF ids = <<>> THEN <<>>
  ELSE (IF Head(ids) \in Keys(mems)
           /\ _passes_filters(Lookup(mems, Head(ids)), min_importance, memory_type)
        THEN <<Lookup(mems, Head(ids))>> ELSE <<>>)
       \o SemanticResults(Tail(ids), mems, min_importance, memory_type)

KeywordResults(query, mems, min_importance, memory_type) ==
  SelectSeq(mems, LAMBDA m : /\ Contains(Lower(query), Lower(m.content))
                             /\ _passes_filters(m, min_importance, memory_type))

(* Variant of search_memories whose keyword loop runs only when semantic   *)
(* search was not requested: `if not use_semantic` without `or not results` *)
search_memories_NoFallback(mems, fm, noFaiss, query, limit, min_importance, memory_type, use_semantic, encodeOk, hits) ==
  LET sem == IF use_semantic /\ ~noFaiss
             THEN SemanticResults(FAISS_search_similar(fm, encodeOk, hits),
                                  mems, min_importance, memory_type)
             ELSE <<>>
      results == IF ~use_semantic
                 THEN sem \o KeywordResults(query, mems, min_importance, memory_type)
                 ELSE sem
  IN Take(SortDesc(results), limit)

search_memories(mems, fm, noFaiss, query, limit, min_importance, memory_type, use_semantic, encodeOk, hits) ==
  LET sem == IF use_semantic /\ ~noFaiss
             THEN SemanticResults(FAISS_search_similar(fm, encodeOk, hits),
                                  mems, min_importance, memory_type)
             ELSE <<>>
      results == IF ~use_semantic \/ sem = <<>>
                 THEN sem \o KeywordResults(query, mems, min_importance, memory_type)
                 ELSE sem
  IN Take(SortDesc(results), limit)

FM_search_memories(query, limit, min_importance, memory_type, use_semantic, encodeOk, hits) ==
  /\ impl = "memory_manager"
  /\ last' = [op |-> "search", raised |-> FALSE, query |-> query, limit |-> limit,
              min_importance |-> min_importance, memory_type |-> memory_type,
              use_semantic |-> use_semantic,
              semantic_up |-> (~simple_mode /\ encodeOk),
              ret |-> search_memories(memories, faiss_manager, simple_mode,
                                      query, limit, min_importance, memory_type,
                                      use_semantic, encodeOk, hits)]
  /\ UNCHANGED <<asyncVars, impl, simple_mode, memories, disk_memories, fmVars, assocVars, used>>

(* _sync_auxiliary_storage.  ordF and ordG are the orders in which the two *)
(* `for memory_id in memory_ids - ..._ids` loops visit their sets, encOk   *)
(* the IDs whose embedding succeeds, failAt the position at which          *)
(* MemoryGraph.add_memory raises (0: it never does).                       *)
RECURSIVE SyncFaissAdd(_, _, _)
SyncFaissAdd(fm, ord, encOk) ==
  IF ord = <<>> THEN fm
  ELSE SyncFaissAdd(FAISS_add_memory(fm, Head(ord), Head(ord) \in encOk).fm,
                    Tail(ord), encOk)

RECURSIVE SyncFaissRemove(_, _)
SyncFaissRemove(fm, stale) ==
  IF stale = {} THEN fm
  ELSE LET x == CHOOSE y \in stale : TRUE
       IN SyncFaissRemove(FAISS_remove_memory(fm, x).fm, stale \ {x})

RECURSIVE SyncGraphRemove(_, _)
SyncGraphRemove(g, stale) ==
  IF stale = {} THEN g
  ELSE LET x == CHOOSE y \in stale : TRUE
       IN SyncGraphRemove(Graph_remove_memory(g, x), stale \ {x})

_sync_auxiliary_storage(mems, fm, fdisk, g, gdisk, noAux, ordF, encOk, ordG, failAt) ==
  IF noAux
  THEN [fm |-> fm, fdisk |-> fdisk, g |-> g, gdisk |-> gdisk, raised |-> FALSE]
  ELSE
    LET memory_ids == Keys(mems)
        faiss_ids == DOMAIN fm.id_to_index
        fm1 == SyncFaissAdd(fm, ordF, encOk)
        fm2 == SyncFaissRemove(fm1, faiss_ids \ memory_ids)
        fdisk2 == IF fm2 # fm THEN save_index(fm2) ELSE fdisk
        graph_ids == DOMAIN g.adj
        added == IF failAt = 0 THEN ordG ELSE SubSeq(ordG, 1, failAt - 1)
        g1 == AddNodes(g, added)
        g2 == IF failAt = 0 THEN SyncGraphRemove(g1, graph_ids \ memory_ids) ELSE g1
        gdisk2 == IF g2 # g THEN save_graph(g2) ELSE gdisk
    IN [fm |-> fm2, fdisk |-> fdisk2, g |-> g2, gdisk |-> gdisk2,
        raised |-> failAt # 0]

(* sorted(self.memories.items(), key=importance * (1 - decay),             *)
(* reverse=True): stable, descending.  With importance and decay in tenths *)
(* the key is importance * (10 - decay) hundredths.                        *)
RECURSIVE InsertByScore(_, _)
InsertByScore(sorted, r) ==
  IF sorted = <<>> THEN <<r>>
  ELSE IF Head(sorted).importance * (10 - Head(sorted).decay)
            >= r.importance * (10 - r.decay)
       THEN <<Head(sorted)>> \o InsertByScore(Tail(sorted), r)
       ELSE <<r>> \o sorted

(* Variant of the prune order whose key is the importance alone *)
SortByScore_ImportanceOnly(s) == SortDesc(s)

RECURSIVE SortByScore(_)
SortByScore(s) ==
  IF s = <<>> THEN <<>>
  ELSE InsertByScore(SortByScore(SubSeq(s, 1, Len(s) - 1)), s[Len(s)])

FM__prune_memories(ordF, encOk, ordG, failAt) ==
  /\ impl = "memory_manager"
  /\ LET sorted_memories == SortByScore(memories)
         mems == Take(sorted_memories, max_memories)
         r == _sync_auxiliary_storage(mems, faiss_manager, faiss_disk,
                                      memory_graph, graph_disk, simple_mode,
                                      ordF, encOk, ordG, failAt)
     IN /\ simple_mode => (ordF = <<>> /\ ordG = <<>> /\ encOk = {} /\ failAt = 0)
        /\ ~simple_mode =>
             /\ ordF \in Orderings(Keys(mems) \ DOMAIN faiss_manager.id_to_index)
             /\ encOk \subseteq Range(ordF)
             /\ ordG \in Orderings(Keys(mems) \ DOMAIN memory_graph.adj)
             /\ failAt \in 0..Len(ordG)
        /\ r.fm.ntotal <= MaxSlots
        /\ memories' = mems
        /\ faiss_manager' = r.fm
        /\ faiss_disk' = r.fdisk
        /\ memory_graph' = r.g
        /\ graph_disk' = r.gdisk
        /\ last' = [op |-> "prune", raised |-> r.raised,
                    discarded |-> Range(memories) \ Range(mems),
                    embedded |-> (encOk = Range(ordF))]
        /\ UNCHANGED <<asyncVars, impl, simple_mode, disk_memories, assocVars, used>>

(* Variant of the merge loop that stores every record of the file,         *)
(* replacing the stored record of an ID the store already holds.           *)
RECURSIVE ImportMerge_Overwrite(_, _, _, _, _)
ImportMerge_Overwrite(b, file, noAux, encOk, failId) ==
  IF file = <<>> THEN b
  ELSE ImportMerge_Overwrite([b EXCEPT !.memories = DictSet(@, Head(file))],
                             Tail(file), noAux, encOk, failId)

(* The merge loop of import_memories over the records of the file, in file *)
(* order.  b is the state so far; encOk the IDs whose embedding succeeds;  *)
(* failId the ID at which MemoryGraph.add_memory raises (0: nowhere).      *)
RECURSIVE ImportMerge(_, _, _, _, _)
ImportMerge(b, file, noAux, encOk, failId) ==
  IF file = <<>> \/ b.raised THEN b
  ELSE
    LET memory == Head(file)
    IN IF memory.id \in Keys(b.memories)
       THEN ImportMerge(b, Tail(file), noAux, encOk, failId)
       ELSE
         LET mems == Append(b.memories, memory)
             fr == IF noAux THEN [fm |-> b.fm, ret |-> FALSE]
                   ELSE FAISS_add_memory(b.fm, memory.id, memory.id \in encOk)
             raises == ~noAux /\ memory.id = failId
             gOk == ~noAux /\ ~raises
             g == IF gOk THEN Graph_add_memory(b.g, memory.id) ELSE b.g
         IN ImportMerge([memories |-> mems,
                         fm |-> fr.fm,
                         fdisk |-> IF fr.ret THEN save_index(fr.fm) ELSE b.fdisk,
                         g |-> g,
                         gdisk |-> IF gOk THEN save_graph(g) ELSE b.gdisk,
                         raised |-> raises],
                        Tail(file), noAux, encOk, failId)

ImportRecords ==
  [id : IDs, content : {<<"T", "shi">>}, importance : {10}, type : {"other"},
   created_at : {0}, decay : {0}]

(* The mappings a JSON or CSV file can hold, as the list of their entries *)
ImportFiles ==
  {f \in UNION {[1..n -> ImportRecords] : n \in 1..MaxImport} :
     \A i, j \in DOMAIN f : i # j => f[i].id # f[j].id}

(* readable = FALSE: the format is neither "json" nor "csv", or the file   *)
(* cannot be opened or parsed.                                             *)
FM_import_memories(file, readable, encOk, failId) ==
  /\ impl = "memory_manager"
  /\ simple_mode => (encOk = {} /\ failId = 0)
  /\ ~readable => (encOk = {} /\ failId = 0)
  /\ LET b0 == [memories |-> memories, fm |-> faiss_manager, fdisk |-> faiss_disk,
                g |-> memory_graph, gdisk |-> graph_disk, raised |-> FALSE]
         b == IF readable THEN ImportMerge(b0, file, simple_mode, encOk, failId) ELSE b0
         ok == readable /\ ~b.raised
     IN /\ b.fm.ntotal <= MaxSlots
        /\ memories' = b.memories
        /\ faiss_manager' = b.fm
        /\ faiss_disk' = b.fdisk
        /\ memory_graph' = b.g
        /\ graph_disk' = b.gdisk
        /\ disk_memories' = IF ok THEN save_memories(b.memories, disk_memories, "ok")
                            ELSE disk_memories
        /\ used' = used \cup (IF readable THEN {file[i].id : i \in DOMAIN file} ELSE {})
        /\ last' = [op |-> "import", ret |-> ok, raised |-> FALSE,
                    new |-> Keys(b.memories) \ Keys(memories),
                    kept |-> {file[i].id : i \in {j \in DOMAIN file :
                                /\ readable /\ file[j].id \in Keys(memories)
                                /\ Lookup(memories, file[j].id) # file[j]}}]
        /\ UNCHANGED <<asyncVars, impl, simple_mode, assocVars>>

(* export_memories.  json.dump writes the mapping, whose keys are strings  *)
(* and whose values hold strings and floats; csv.writer writes one row per *)
(* record, the file being opened with newline='' so that every character   *)
(* of a field reaches the file as it is.                                   *)
json_dump(mems) == [i \in DOMAIN mems |-> <<mems[i].id, mems[i]>>]

json_load(text) == [i \in DOMAIN text |-> text[i][2]]

csv_writerows(mems) ==
  [i \in DOMAIN mems |-> [ID |-> mems[i].id, Content |-> mems[i].content,
                          Type |-> mems[i].type, Importance |-> str(mems[i].importance),
                          CreatedAt |-> mems[i].created_at]]

export_memories(mems, format) ==
  IF format = "json" THEN json_dump(mems) ELSE csv_writerows(mems)

(* The rows csv.DictReader yields from a file opened without newline='' *)
csv_DictReader(text) ==
  [i \in DOMAIN text |-> [text[i] EXCEPT !.Content = UniversalNewlines(@)]]

(* The first part of import_memories: imported_memories as read from a     *)
(* JSON file, or as built row by row from a CSV file                       *)
read_imported_memories(text, format) ==
  IF format = "json" THEN json_load(text)
  ELSE LET rows == csv_DictReader(text)
       IN [i \in DOMAIN rows |->
             [id |-> rows[i].ID, content |-> rows[i].Content, type |-> rows[i].Type,
              importance |-> float(rows[i].Importance),
              created_at |-> rows[i].CreatedAt, decay |-> 0]]

(* writable = FALSE: the file cannot be opened for writing *)
FM_export_memories(format, writable) ==
  /\ impl = "memory_manager"
  /\ last' = [op |-> "export", ret |-> writable, raised |-> FALSE, format |-> format,
              file |-> IF writable THEN export_memories(memories, format) ELSE <<>>]
  /\ UNCHANGED <<asyncVars, impl, simple_mode, memories, disk_memories, fmVars, assocVars, used>>

FM_add_association(memory_id_1, memory_id_2, relation_type, strength) ==
  /\ impl = "memory_manager"
  /\ LET r == IF ~simple_mode /\ memory_id_1 \in Keys(memories)
                              /\ memory_id_2 \in Keys(memories)
              THEN Graph_add_association(memory_graph, memory_id_1, memory_id_2,
                                         relation_type, strength)
              ELSE [g |-> memory_graph, ret |-> FALSE]
     IN /\ memory_graph' = r.g
        /\ graph_disk' = IF r.ret THEN save_graph(r.g) ELSE graph_disk
        /\ last' = [op |-> "associate", ret |-> r.ret, raised |-> FALSE,
                    a |-> memory_id_1, b |-> memory_id_2]
        /\ UNCHANGED <<asyncVars, impl, simple_mode, memories, disk_memories, faiss_manager,
                       faiss_disk, assocVars, used>>

get_associated_memories(mems, g, noGraph, memory_id, max_results) ==
  IF noGraph THEN <<>>
  ELSE LET associations_ == Graph_get_associated_memories(g, memory_id, max_results)
           live == SelectSeq(associations_, LAMBDA a : a.memory_id \in Keys(mems))
       IN [i \in DOMAIN live |-> [memory |-> Lookup(mems, live[i].memory_id),
                                  relation_type |-> live[i].relation_type,
                                  strength |-> live[i].strength]]

FM_get_associated_memories(memory_id, max_results) ==
  /\ impl = "memory_manager"
  /\ last' = [op |-> "get_associated", raised |-> FALSE, id |-> memory_id,
              limit |-> max_results,
              ret |-> get_associated_memories(memories, memory_graph, simple_mode,
                                              memory_id, max_results)]
  /\ UNCHANGED <<asyncVars, impl, simple_mode, memories, disk_memories, fmVars, assocVars, used>>

(* A new process: __init__ runs _initialize_components and load_memories.  *)
(* simple: an import of a component failed, so every component is None.    *)
FM___init__(simple) ==
  /\ impl = "memory_manager"
  /\ simple_mode' = simple
  /\ faiss_manager' = IF simple THEN NewFaiss ELSE load_index(faiss_disk)
  /\ memory_graph' = IF simple THEN NewGraph ELSE load_graph(graph_disk)
  /\ memories' = load_memories(disk_memories)
  /\ last' = [op |-> "init", raised |-> FALSE]
  /\ UNCHANGED <<asyncVars, impl, disk_memories, faiss_disk, graph_disk, assocVars, used>>

----------------------------------------------------------------------------
(* MemoryAssociationManager (main.py).  associations maps an ID to the map *)
(* of its related IDs to strengths; a strength is a fraction <<n, d>>.     *)

Assoc_add_association(assoc, memory_id, related_id, strength) ==
  LET a1 == IF memory_id \notin DOMAIN assoc
            THEN MapSet(assoc, memory_id, EmptyMap) ELSE assoc
      a2 == IF related_id \notin DOMAIN a1
            THEN MapSet(a1, related_id, EmptyMap) ELSE a1
      a3 == MapSet(a2, memory_id, MapSet(a2[memory_id], related_id, strength))
  IN MapSet(a3, related_id, MapSet(a3[related_id], memory_id, strength))

(* Variant of remove_association that deletes the entry of memory_id only *)
Assoc_remove_association_OneWay(assoc, memory_id, related_id) ==
  IF memory_id \in DOMAIN assoc /\ related_id \in DOMAIN assoc[memory_id]
  THEN MapSet(assoc, memory_id, MapDel(assoc[memory_id], related_id))
  ELSE assoc

Assoc_remove_association(assoc, memory_id, related_id) ==
  LET a1 == IF memory_id \in DOMAIN assoc /\ related_id \in DOMAIN assoc[memory_id]
            THEN MapSet(assoc, memory_id, MapDel(assoc[memory_id], related_id))
            ELSE assoc
  IN IF related_id \in DOMAIN a1 /\ memory_id \in DOMAIN a1[related_id]
     THEN MapSet(a1, related_id, MapDel(a1[related_id], memory_id))
     ELSE a1

(* jieba.analyse.extract_tags on a text of a few characters: its characters *)
_extract_keywords(text) == Range(text)

(* Variant of auto_create_associations without the test against the      *)
(* threshold: every other record with a keyword is associated             *)
RECURSIVE auto_create_associations_NoThreshold(_, _, _, _)
auto_create_associations_NoThreshold(assoc, memory_id, content, all_memories) ==
  IF all_memories = <<>> THEN assoc
  ELSE
    LET other == Head(all_memories)
        keywords == _extract_keywords(content)
        other_keywords == _extract_keywords(other.content)
        overlap == Cardinality(keywords \cap other_keywords)
        total_unique == Cardinality(keywords \cup other_keywords)
        next == IF other.id # memory_id /\ total_unique > 0
                THEN Assoc_add_association(assoc, memory_id, other.id,
                                           <<overlap, total_unique>>)
                ELSE assoc
    IN auto_create_associations_NoThreshold(next, memory_id, content, Tail(all_memories))

RECURSIVE auto_create_associations(_, _, _, _)
auto_create_associations(assoc, memory_id, content, all_memories) ==
  IF all_memories = <<>> THEN assoc
  ELSE
    LET other == Head(all_memories)
        keywords == _extract_keywords(content)
        other_keywords == _extract_keywords(other.content)
        overlap == Cardinality(keywords \cap other_keywords)
        total_unique == Cardinality(keywords \cup other_keywords)
        next == IF other.id # memory_id /\ total_unique > 0
                   /\ 10 * overlap >= 3 * total_unique
                THEN Assoc_add_association(assoc, memory_id, other.id,
                                           <<overlap, total_unique>>)
                ELSE assoc
    IN auto_create_associations(next, memory_id, content, Tail(all_memories))

save_associations(assoc) == assoc

load_associations(disk) == disk

----------------------------------------------------------------------------
(* EnhancedMemoryManager of main.py *)

_classify_memory_type(content) ==
  LET content_lower == Lower(content)
      any(words) == \E w \in words : Contains(w, content_lower)
  IN IF any({<<"xi", "huan">>, <<"tao", "yan">>, <<"ai">>, <<"hen">>, <<"pian", "hao">>})
     THEN "preference"
     ELSE IF any({<<"ren", "wei">>, <<"jue", "de">>, <<"xiang">>, <<"ying", "gai">>})
     THEN "opinion"
     ELSE IF any({<<"zuo", "tian">>, <<"jin", "tian">>, <<"ming", "tian">>,
                  <<"xiao", "shi">>, <<"fen", "zhong">>})
     THEN "event"
     ELSE IF any({<<"shi">>, <<"you">>, <<"zai">>, <<"shu", "yu">>})
     THEN "fact"
     ELSE "other"

(* add_memory: what it does to the store *)
add_memory_store(content, importance, memory_type, auto_associate, saveOutcome) ==
  /\ impl = "main"
  /\ used # IDs
  /\ LET memory_id == FreshId
         memory_data == [id |-> memory_id, content |-> content,
                         importance |-> importance,
                         type |-> IF memory_type = None
                                  THEN _classify_memory_type(content)
                                  ELSE memory_type,
                         created_at |-> now]
         mems == DictSet(memories, memory_data)
         assoc == IF auto_associate /\ Len(mems) > 1
                  THEN auto_create_associations(associations, memory_id, content, mems)
                  ELSE associations
     IN /\ memories' = mems
        /\ disk_memories' = save_memories(mems, disk_memories, saveOutcome)
        /\ associations' = assoc
        /\ disk_associations' = IF assoc # associations
                                THEN save_associations(assoc) ELSE disk_associations
        /\ used' = used \cup {memory_id}
        /\ last' = [op |-> "add", ret |-> memory_id, raised |-> FALSE,
                    content |-> content, importance |-> importance,
                    faiss |-> "none", graph |-> "none"]
        /\ UNCHANGED <<impl, simple_mode, fmVars>>

(* add_memory called on its own: no coroutine moves *)
Plugin_add_memory(content, importance, memory_type, auto_associate, saveOutcome) ==
  /\ add_memory_store(content, importance, memory_type, auto_associate, saveOutcome)
  /\ UNCHANGED asyncVars

(* The loop of delete_memory over the related IDs of memory_id *)
RECURSIVE RemoveAll(_, _, _)
RemoveAll(assoc, memory_id, related_ids) ==
  IF related_ids = {} THEN assoc
  ELSE LET r == CHOOSE x \in related_ids : TRUE
       IN RemoveAll(Assoc_remove_association(assoc, memory_id, r),
                    memory_id, related_ids \ {r})

(* Variant of delete_memory that drops only the deleted ID's own entry of  *)
(* the table and skips the loop over the related IDs.                      *)
delete_memory_NoCascade(mems, assoc, memory_id) ==
  IF memory_id \in Keys(mems)
  THEN [memories |-> DictDel(mems, memory_id),
        associations |-> IF memory_id \in DOMAIN assoc
                         THEN MapDel(assoc, memory_id) ELSE assoc,
        ret |-> TRUE]
  ELSE [memories |-> mems, associations |-> assoc, ret |-> FALSE]

(* Variant of delete_memory that reports success for an absent ID too *)
delete_memory_AlwaysTrue(mems, assoc, memory_id) ==
  [memories |-> IF memory_id \in Keys(mems) THEN DictDel(mems, memory_id) ELSE mems,
   associations |-> IF memory_id \in Keys(mems) /\ memory_id \in DOMAIN assoc
                    THEN MapDel(RemoveAll(assoc, memory_id, DOMAIN assoc[memory_id]),
                                memory_id)
                    ELSE assoc,
   ret |-> TRUE]

delete_memory(mems, assoc, memory_id) ==
  IF memory_id \in Keys(mems)
  THEN [memories |-> DictDel(mems, memory_id),
        associations |-> IF memory_id \in DOMAIN assoc
                         THEN MapDel(RemoveAll(assoc, memory_id, DOMAIN assoc[memory_id]),
                                     memory_id)
                         ELSE assoc,
        ret |-> TRUE]
  ELSE [memories |-> mems, associations |-> assoc, ret |-> FALSE]

Plugin_delete_memory(memory_id) ==
  /\ impl = "main"
  /\ LET r == delete_memory(memories, associations, memory_id)
     IN /\ memories' = r.memories
        /\ associations' = r.associations
        /\ disk_memories' = IF r.ret THEN save_memories(r.memories, disk_memories, "ok")
                            ELSE disk_memories
        /\ disk_associations' = IF r.ret THEN save_associations(r.associations)
                                ELSE disk_associations
        /\ last' = [op |-> "delete", ret |-> r.ret, raised |-> FALSE, id |-> memory_id,
                    related_ids |-> IF r.ret /\ memory_id \in DOMAIN associations
                                    THEN DOMAIN associations[memory_id] ELSE {},
                    repeated |-> (last.op = "delete" /\ last.id = memory_id /\ last.ret)]
        /\ UNCHANGED <<asyncVars, impl, simple_mode, fmVars, used>>

add_manual_association(assoc, memory_id_1, memory_id_2, strength) ==
  [associations |-> Assoc_add_association(assoc, memory_id_1, memory_id_2, strength),
   ret |-> TRUE]

Plugin_add_manual_association(memory_id_1, memory_id_2, strength) ==
  /\ impl = "main"
  /\ LET r == add_manual_association(associations, memory_id_1, memory_id_2, strength)
     IN /\ associations' = r.associations
        /\ disk_associations' = save_associations(r.associations)
        /\ last' = [op |-> "associate", ret |-> r.ret, raised |-> FALSE,
                    a |-> memory_id_1, b |-> memory_id_2]
        /\ UNCHANGED <<asyncVars, impl, simple_mode, memories, disk_memories, fmVars, used>>

(* A strength a at least a strength b, both fractions *)
StrengthGE(a, b) == a[1] * b[2] >= b[1] * a[2]

(* associations.sort(key=strength, reverse=True): stable, descending *)
RECURSIVE InsertByStrength(_, _)
InsertByStrength(sorted, r) ==
  IF sorted = <<>> THEN <<r>>
  ELSE IF StrengthGE(Head(sorted).strength, r.strength)
       THEN <<Head(sorted)>> \o InsertByStrength(Tail(sorted), r)
       ELSE <<r>> \o sorted

RECURSIVE SortByStrength(_)
SortByStrength(s) ==
  IF s = <<>> THEN <<>>
  ELSE InsertByStrength(SortByStrength(SubSeq(s, 1, Len(s) - 1)), s[Len(s)])

(* MemoryAssociationManager.get_associated_memories.  The table does not  *)
(* record the order in which the related IDs of an ID were inserted; ord   *)
(* lists the IDs in that order.                                            *)
Assoc_get_associated_memories(assoc, memory_id, limit, ord) ==
  IF memory_id \notin DOMAIN assoc THEN <<>>
  ELSE LET related == SelectSeq(ord, LAMBDA r : r \in DOMAIN assoc[memory_id])
           items == [i \in DOMAIN related |->
                       [memory_id |-> related[i],
                        strength |-> assoc[memory_id][related[i]]]]
       IN Take(SortByStrength(items), limit)

(* get_associated_memories of the plugin store: each element is the copy   *)
(* of a stored record (memory) with its association_strength (strength).   *)
Plugin_get_associated_memories(mems, assoc, memory_id, limit, ord) ==
  LET associated == Assoc_get_associated_memories(assoc, memory_id, limit, ord)
      live == SelectSeq(associated, LAMBDA a : a.memory_id \in Keys(mems))
  IN [i \in DOMAIN live |-> [memory |-> Lookup(mems, live[i].memory_id),
                             strength |-> live[i].strength]]

Plugin_get_associated(memory_id, limit, ord) ==
  /\ impl = "main"
  /\ last' = [op |-> "get_associated", raised |-> FALSE, id |-> memory_id,
              limit |-> limit,
              ret |-> Plugin_get_associated_memories(memories, associations,
                                                     memory_id, limit, ord)]
  /\ UNCHANGED <<asyncVars, impl, simple_mode, memories, disk_memories, fmVars, assocVars, used>>

(* _semantic_search: the min(k, number of records) nearest records, built  *)
(* from all stored records; [] without an embedding model or when the      *)
(* embedding raises.  hits lists the IDs index.search returns.             *)
_semantic_search(embedOk, hits) == IF embedOk THEN hits ELSE <<>>

PluginHitLists(mems, k) ==
  {h \in UNION {[1..n -> Keys(mems)] : n \in {Min(k, Len(mems))}} :
     \A i, j \in DOMAIN h : i # j => h[i] # h[j]}

(* The loops of search_memories under `if include_associated and results` *)
RECURSIVE AppendAssociated(_, _, _)
AppendAssociated(all_results, associated, mems) ==
  IF associated = <<>> THEN all_results
  ELSE LET assoc_id == Head(associated).memory_id
           next == IF assoc_id \in Keys(mems) /\ assoc_id \notin Keys(all_results)
                   THEN Append(all_results, Lookup(mems, assoc_id))
                   ELSE all_results
       IN AppendAssociated(next, Tail(associated), mems)

RECURSIVE IncludeAssociated(_, _, _, _, _)
IncludeAssociated(all_results, results, mems, assoc, ord) ==
  IF results = <<>> THEN all_results
  ELSE IncludeAssociated(
         AppendAssociated(all_results,
                          Assoc_get_associated_memories(assoc, Head(results).id, 3, ord),
                          mems),
         Tail(results), mems, assoc, ord)

(* search_memories of the plugin store.  min_importance and memory_type    *)
(* arrive in **kwargs, which the body never reads.  The returned copies    *)
(* carry match_type and similarity in addition; they are left out here.    *)
Plugin_search(mems, assoc, query, limit, use_semantic, include_associated, min_importance, memory_type, embedOk, hits, ord) ==
  LET keyword == SelectSeq(mems, LAMBDA m : Contains(Lower(query), Lower(m.content)))
      results == IF use_semantic /\ embedOk /\ keyword = <<>>
                 THEN LET ids == _semantic_search(embedOk, hits)
                          live == SelectSeq(ids, LAMBDA id : id \in Keys(mems))
                      IN [i \in DOMAIN live |-> Lookup(mems, live[i])]
                 ELSE keyword
      all_results == IF include_associated /\ results # <<>>
                     THEN IncludeAssociated(results, results, mems, assoc, ord)
                     ELSE results
  IN Take(SortDesc(all_results), limit)

Plugin_search_memories(query, limit, use_semantic, include_associated, min_importance, memory_type, embedOk, hits, ord) ==
  /\ impl = "main"
  /\ last' = [op |-> "search", raised |-> FALSE, query |-> query, limit |-> limit,
              min_importance |-> min_importance, memory_type |-> memory_type,
              use_semantic |-> use_semantic, semantic_up |-> embedOk,
              ret |-> Plugin_search(memories, associations, query, limit,
                                    use_semantic, include_associated, min_importance,
                                    memory_type, embedOk, hits, ord)]
  /\ UNCHANGED <<asyncVars, impl, simple_mode, memories, disk_memories, fmVars, assocVars, used>>

(* DataExportManager: export_memories and import_memories *)
DataExportManager_export_memories(mems, format) ==
  IF format = "json" THEN json_dump(mems) ELSE csv_writerows(mems)

DataExportManager_import_memories(text, format) ==
  IF format = "json" THEN json_load(text)
  ELSE LET rows == csv_DictReader(text)
       IN [i \in DOMAIN rows |->
             [id |-> rows[i].ID, content |-> rows[i].Content, type |-> rows[i].Type,
              importance |-> float(rows[i].Importance),
              created_at |-> rows[i].CreatedAt]]

Plugin_export_data(format, writable) ==
  /\ impl = "main"
  /\ last' = [op |-> "export", ret |-> writable, raised |-> FALSE, format |-> format,
              file |-> IF writable THEN DataExportManager_export_memories(memories, format)
                       ELSE <<>>]
  /\ UNCHANGED <<asyncVars, impl, simple_mode, memories, disk_memories, fmVars, assocVars, used>>

(* import_data of the plugin store.  file: the mapping import_memories of *)
(* DataExportManager returns, {} when the file cannot be read or parsed.   *)
RECURSIVE PluginMerge(_, _)
PluginMerge(mems, imported_memories) ==
  IF imported_memories = <<>> THEN mems
  ELSE PluginMerge(IF Head(imported_memories).id \in Keys(mems) THEN mems
                   ELSE Append(mems, Head(imported_memories)),
                   Tail(imported_memories))

PluginImportRecords ==
  [id : IDs, content : {<<"T", "shi">>}, importance : {10}, type : {"other"},
   created_at : {0}]

PluginImportFiles ==
  {f \in UNION {[1..n -> PluginImportRecords] : n \in 1..MaxImport} :
     \A i, j \in DOMAIN f : i # j => f[i].id # f[j].id}

Plugin_import_data(file, readable) ==
  /\ impl = "main"
  /\ LET imported_memories == IF readable THEN file ELSE <<>>
         mems == PluginMerge(memories, imported_memories)
     IN /\ memories' = mems
        /\ disk_memories' = save_memories(mems, disk_memories, "ok")
        /\ used' = used \cup Keys(imported_memories)
        /\ last' = [op |-> "import", ret |-> Len(imported_memories), raised |-> FALSE,
                    new |-> Keys(mems) \ Keys(memories),
                    kept |-> {file[i].id : i \in {j \in DOMAIN file :
                                /\ readable /\ file[j].id \in Keys(memories)
                                /\ Lookup(memories, file[j].id) # file[j]}}]
        /\ UNCHANGED <<asyncVars, impl, simple_mode, fmVars, assocVars>>

Plugin___init__ ==
  /\ impl = "main"
  /\ memories' = load_memories(disk_memories)
  /\ associations' = load_associations(disk_associations)
  /\ last' = [op |-> "init", raised |-> FALSE]
  /\ UNCHANGED <<asyncVars, impl, simple_mode, disk_memories, disk_associations, fmVars, used>>

----------------------------------------------------------------------------
(* The state machine *)

Init ==
  /\ impl \in {"memory_manager", "main"}
  /\ simple_mode \in IF impl = "main" THEN {FALSE} ELSE BOOLEAN
  /\ memories = <<>>
  /\ disk_memories = <<>>
  /\ faiss_manager = NewFaiss
  /\ faiss_disk = NewFaiss
  /\ memory_graph = NewGraph
  /\ graph_disk = save_graph(NewGraph)
  /\ associations = EmptyMap
  /\ disk_associations = EmptyMap
  /\ used = {}
  /\ last = [op |-> "init", raised |-> FALSE]
  /\ _concurrent_requests = 0
  /\ _request_lock = [holder |-> 0, waiters |-> <<>>]
  /\ pc = [c \in Callers |-> "idle"]

Outcomes == {"ok", "false", "raise"}

(* add_memory of memory_manager.py with the arguments drawn from the given *)
(* sets.  In simple mode the components are None and have no outcome.      *)
FMAddFrom(contents, importances, types, faissOutcomes, graphOutcomes, saveOutcomes) ==
  \E content \in contents, importance \in importances, memory_type \in types,
     faissOutcome \in faissOutcomes, graphOutcome \in graphOutcomes,
     saveOutcome \in saveOutcomes :
    /\ simple_mode => (faissOutcome = "ok" /\ graphOutcome = "ok")
    /\ \/ /\ memory_type = None
          /\ \E classified \in IF simple_mode THEN {"other"} ELSE Types :
               FM_add_memory(content, importance, None, TRUE, classified,
                             faissOutcome, graphOutcome, saveOutcome)
       \/ /\ memory_type # None
          /\ FM_add_memory(content, importance, memory_type, FALSE, "other",
                           faissOutcome, graphOutcome, saveOutcome)

DoFMAdd ==
  FMAddFrom({<<>>, <<"t">>}, {-3, 17}, {"other"}, Outcomes, {"ok", "raise"}, {"ok"})

DoFMPrune ==
  LET mems == Take(SortByScore(memories), max_memories)
      missingF == IF simple_mode THEN {} ELSE Keys(mems) \ DOMAIN faiss_manager.id_to_index
      missingG == IF simple_mode THEN {} ELSE Keys(mems) \ DOMAIN memory_graph.adj
  IN \E ordF \in Orderings(missingF), encOk \in SUBSET missingF,
        ordG \in Orderings(missingG), failAt \in 0..Cardinality(missingG) :
       FM__prune_memories(ordF, encOk, ordG, failAt)

DoFMImport ==
  \E file \in ImportFiles, readable \in BOOLEAN :
    LET ids == IF simple_mode \/ ~readable THEN {}
               ELSE {file[i].id : i \in DOMAIN file} \ Keys(memories)
    IN \E encOk \in SUBSET ids, failId \in ids \cup {0} :
         FM_import_memories(file, readable, encOk, failId)

(* The components a process finds installed do not change between runs *)
DoFMInit == \E simple \in {simple_mode} : FM___init__(simple)

DoFMAssociate ==
  \E a \in IDs, b \in IDs : FM_add_association(a, b, "related", <<1, 1>>)

DoPluginAdd ==
  \E content \in {<<>>, <<"t">>}, importance \in {5, 17},
     auto_associate \in BOOLEAN :
    Plugin_add_memory(content, importance, None, auto_associate, "ok")

DoPluginDelete == \E id \in IDs : Plugin_delete_memory(id)

DoPluginAssociate ==
  \E a \in IDs, b \in IDs : Plugin_add_manual_association(a, b, <<1, 1>>)

DoPluginInit == Plugin___init__

(* Both stores: add and restart, and in the plugin store delete and       *)
(* manual association                                                      *)
Next ==
  \/ DoFMAdd
  \/ DoFMInit
  \/ DoPluginAdd
  \/ DoPluginDelete
  \/ DoPluginAssociate
  \/ DoPluginInit

Spec == Init /\ [][Next]_vars

InitFM == Init /\ impl = "memory_manager"

(* Maintenance of the FAISS/graph-backed store: pruning with its           *)
(* synchronization pass, and import                                        *)
DoFMAddForSync ==
  FMAddFrom({<<"t">>}, {-3, 17}, {"other"}, Outcomes, {"ok", "raise"}, {"ok"})

NextSync ==
  \/ DoFMAddForSync
  \/ DoFMPrune
  \/ DoFMImport
  \/ DoFMInit

SpecSync == InitFM /\ [][NextSync]_vars

(* Retrieval in the FAISS-backed store *)
DoFMAddForSearch ==
  FMAddFrom({<<"t">>, <<"T", "shi">>}, {5, 17}, {None, "fact"}, {"ok", "false"}, {"ok"},
            {"ok"})

DoFMSearch ==
  \E query \in Queries, limit \in {MaxIds}, encodeOk \in BOOLEAN :
    \E hits \in IF encodeOk /\ ~simple_mode
                THEN HitLists(faiss_manager, 2 * limit) ELSE {<<>>} :
      FM_search_memories(query, limit, 0, None, TRUE, encodeOk, hits)

NextSearch ==
  \/ DoFMAddForSearch
  \/ DoFMInit
  \/ DoFMSearch

SpecSearch == InitFM /\ [][NextSearch]_vars

(* Retrieval in both stores, with the filters and the flags of the call   *)
(* drawn from their sets                                                   *)
DoFMAddForRetrieval ==
  FMAddFrom({<<"t">>, <<"T", "shi">>}, {5, 17}, {"fact", "other"}, {"ok", "false"},
            {"ok"}, {"ok"})

DoFMSearchFiltered ==
  \E query \in Queries, limit \in Limits, min_importance \in MinImportances,
     memory_type \in {None, "fact"}, use_semantic \in BOOLEAN :
    \E hits \in IF use_semantic /\ ~simple_mode
                THEN HitLists(faiss_manager, 2 * limit) ELSE {<<>>} :
      FM_search_memories(query, limit, min_importance, memory_type, use_semantic,
                         TRUE, hits)

DoPluginAddForSearch ==
  \E content \in {<<"t">>, <<"T", "shi">>}, importance \in {5, 17} :
    Plugin_add_memory(content, importance, None, TRUE, "ok")

DoPluginSearch ==
  \E query \in Queries, limit \in Limits, min_importance \in MinImportances,
     memory_type \in {None, "fact"}, include_associated \in BOOLEAN,
     embedOk \in BOOLEAN :
    \E hits \in IF embedOk THEN PluginHitLists(memories, 2 * limit) ELSE {<<>>},
       ord \in IF include_associated THEN Orderings(IDs) ELSE {<<>>} :
      Plugin_search_memories(query, limit, TRUE, include_associated,
                             min_importance, memory_type, embedOk, hits, ord)

NextRetrieval ==
  \/ DoFMAddForRetrieval
  \/ DoFMInit
  \/ DoFMSearchFiltered
  \/ DoPluginAddForSearch
  \/ DoPluginAssociate
  \/ DoPluginSearch

SpecRetrieval == Init /\ [][NextRetrieval]_vars

(* Associations in both stores *)
Strengths == {<<1, 2>>, <<1, 1>>}

DoFMAddForAssoc == FMAddFrom({<<"t">>}, {5}, {"other"}, {"ok"}, {"ok"}, {"ok"})

DoFMAssociateWeighted ==
  \E a \in IDs, b \in IDs, strength \in Strengths :
    FM_add_association(a, b, "related", strength)

DoFMGetAssociated ==
  \E id \in IDs, max_results \in Limits : FM_get_associated_memories(id, max_results)

DoPluginAddForAssoc ==
  \E auto_associate \in BOOLEAN : Plugin_add_memory(<<"t">>, 5, None, auto_associate, "ok")

DoPluginAssociateWeighted ==
  \E a \in IDs, b \in IDs, strength \in Strengths :
    Plugin_add_manual_association(a, b, strength)

DoPluginGetAssociated ==
  \E id \in IDs, limit \in Limits, ord \in Orderings(IDs) :
    Plugin_get_associated(id, limit, ord)

NextAssoc ==
  \/ DoFMAddForAssoc
  \/ DoFMAssociateWeighted
  \/ DoFMGetAssociated
  \/ DoFMInit
  \/ DoPluginAddForAssoc
  \/ DoPluginAssociateWeighted
  \/ DoPluginDelete
  \/ DoPluginGetAssociated
  \/ DoPluginInit

SpecAssoc == Init /\ [][NextAssoc]_vars

(* Import in both stores *)
DoFMAddForImport ==
  FMAddFrom({<<"t">>}, {5}, {"other"}, {"ok", "false"}, {"ok"}, {"ok"})

DoPluginAddForImport == Plugin_add_memory(<<"t">>, 5, None, FALSE, "ok")

DoPluginImport ==
  \E file \in PluginImportFiles, readable \in BOOLEAN : Plugin_import_data(file, readable)

NextImport ==
  \/ DoFMAddForImport
  \/ DoFMImport
  \/ DoFMInit
  \/ DoPluginAddForImport
  \/ DoPluginImport
  \/ DoPluginInit

SpecImport == Init /\ [][NextImport]_vars

(* The merge of an import into stores filled by add and by earlier imports, *)
(* every embedding succeeding                                              *)
DoFMAddForMerge == FMAddFrom({<<"t">>}, {5}, {"other"}, {"ok"}, {"ok"}, {"ok"})

DoFMImportMerge ==
  \E file \in ImportFiles, readable \in BOOLEAN :
    LET ids == IF simple_mode \/ ~readable THEN {}
               ELSE {file[i].id : i \in DOMAIN file} \ Keys(memories)
    IN \E failId \in ids \cup {0} : FM_import_memories(file, readable, ids, failId)

NextMerge ==
  \/ DoFMAddForMerge
  \/ DoFMImportMerge
  \/ DoPluginAddForImport
  \/ DoPluginImport

SpecMerge == Init /\ [][NextMerge]_vars

(* Export in both stores, and the import of the file just exported *)
ExportContents == {<<"t">>, <<"t", "CR">>}

Formats == {"json", "csv"}

DoFMAddForExport ==
  FMAddFrom(ExportContents, {5, 17}, {"fact", "other"}, {"ok"}, {"ok"}, {"ok"})

DoFMExport == \E format \in Formats, writable \in BOOLEAN : FM_export_memories(format, writable)

DoFMImportExported ==
  /\ last.op = "export" /\ last.ret
  /\ FM_import_memories(read_imported_memories(last.file, last.format), TRUE, {}, 0)

DoPluginAddForExport ==
  \E content \in ExportContents, importance \in {5, 17} :
    Plugin_add_memory(content, importance, None, FALSE, "ok")

DoPluginExport ==
  \E format \in Formats, writable \in BOOLEAN : Plugin_export_data(format, writable)

DoPluginImportExported ==
  /\ last.op = "export" /\ last.ret
  /\ Plugin_import_data(DataExportManager_import_memories(last.file, last.format), TRUE)

NextExport ==
  \/ DoFMAddForExport
  \/ DoFMExport
  \/ DoFMImportExported
  \/ DoFMInit
  \/ DoPluginAddForExport
  \/ DoPluginExport
  \/ DoPluginImportExported
  \/ DoPluginDelete
  \/ DoPluginInit

SpecExport == Init /\ [][NextExport]_vars

(* Pruning of stores that hold records with a decay, which only a JSON    *)
(* file brings in                                                          *)
DecayedRecords ==
  [id : IDs, content : {<<"T", "shi">>}, importance : {10}, type : {"other"},
   created_at : {0}, decay : {0, 6}]

DecayedFiles == {<<r>> : r \in DecayedRecords}

DoFMAddForPrune == FMAddFrom({<<"t">>}, {5, 17}, {"other"}, {"ok"}, {"ok"}, {"ok"})

DoFMImportDecayed ==
  \E file \in DecayedFiles :
    FM_import_memories(file, TRUE,
                       IF simple_mode THEN {}
                       ELSE {file[i].id : i \in DOMAIN file} \ Keys(memories), 0)

NextPrune ==
  \/ DoFMAddForPrune
  \/ DoFMImportDecayed
  \/ DoFMPrune
  \/ DoFMInit

SpecPrune == InitFM /\ [][NextPrune]_vars

(* The plugin store alone *)
InitPlugin == Init /\ impl = "main"

NextPlugin ==
  \/ DoPluginAdd
  \/ DoPluginDelete
  \/ DoPluginAssociate
  \/ DoPluginInit

SpecPlugin == InitPlugin /\ [][NextPlugin]_vars

(* Both stores with writes of memories.json that can fail *)
SaveOutcomes == {"ok", "unchanged", "partial"}

DoFMAddFault ==
  FMAddFrom({<<"t">>}, {5, 17}, {"other"}, {"ok"}, {"ok"}, SaveOutcomes)

DoPluginAddFault ==
  \E importance \in {5, 17}, saveOutcome \in SaveOutcomes :
    Plugin_add_memory(<<"t">>, importance, None, TRUE, saveOutcome)

NextFault ==
  \/ DoFMAddFault
  \/ DoFMInit
  \/ DoPluginAddFault
  \/ DoPluginInit

SpecFault == Init /\ [][NextFault]_vars

----------------------------------------------------------------------------
(* The VectorIndex on its own: the methods of FAISSManager called as its   *)
(* owner calls them, with any memory_id.  last.removed is the set of IDs   *)
(* whose last successful call was remove_memory.                           *)

(* add_memory with its save_index; encodeOk: the embedding model is there  *)
(* and encode did not raise                                                *)
FAISSManager_add_memory(memory_id, encodeOk) ==
  /\ impl = "memory_manager" /\ ~simple_mode
  /\ encodeOk => faiss_manager.ntotal < MaxSlots
  /\ LET r == FAISS_add_memory(faiss_manager, memory_id, encodeOk)
         removed == IF "removed" \in DOMAIN last THEN last.removed ELSE {}
     IN /\ faiss_manager' = r.fm
        /\ faiss_disk' = IF r.ret THEN save_index(r.fm) ELSE faiss_disk
        /\ last' = [op |-> "index_add", raised |-> FALSE, id |-> memory_id,
                    ret |-> r.ret,
                    removed |-> IF r.ret THEN removed \ {memory_id} ELSE removed]
  /\ UNCHANGED <<asyncVars, impl, simple_mode, memories, disk_memories, memory_graph,
                 graph_disk, assocVars, used>>

(* remove_memory with its save_index *)
FAISSManager_remove_memory(memory_id) ==
  /\ impl = "memory_manager" /\ ~simple_mode
  /\ LET r == FAISS_remove_memory(faiss_manager, memory_id)
         removed == IF "removed" \in DOMAIN last THEN last.removed ELSE {}
     IN /\ faiss_manager' = r.fm
        /\ faiss_disk' = IF r.ret THEN save_index(r.fm) ELSE faiss_disk
        /\ last' = [op |-> "index_remove", raised |-> FALSE, id |-> memory_id,
                    ret |-> r.ret,
                    removed |-> IF r.ret THEN removed \cup {memory_id} ELSE removed]
  /\ UNCHANGED <<asyncVars, impl, simple_mode, memories, disk_memories, memory_graph,
                 graph_disk, assocVars, used>>

(* search_similar(query, k): ret is the sequence of the memory_id of the   *)
(* hits                                                                    *)
FAISSManager_search_similar(k, encodeOk, hits) ==
  /\ impl = "memory_manager" /\ ~simple_mode
  /\ hits \in HitLists(faiss_manager, k)
  /\ last' = [op |-> "index_search", raised |-> FALSE, k |-> k,
              ret |-> FAISS_search_similar(faiss_manager, encodeOk, hits),
              removed |-> IF "removed" \in DOMAIN last THEN last.removed ELSE {}]
  /\ UNCHANGED <<asyncVars, impl, simple_mode, memories, disk_memories, fmVars, assocVars, used>>

InitIndex == InitFM /\ ~simple_mode

DoIndexAdd ==
  \E memory_id \in IDs, encodeOk \in BOOLEAN : FAISSManager_add_memory(memory_id, encodeOk)

DoIndexRemove == \E memory_id \in IDs : FAISSManager_remove_memory(memory_id)

DoIndexSearch ==
  \E k \in {1, MaxSlots}, encodeOk \in BOOLEAN :
    \E hits \in HitLists(faiss_manager, k) : FAISSManager_search_similar(k, encodeOk, hits)

NextIndex ==
  \/ DoIndexAdd
  \/ DoIndexRemove
  \/ DoIndexSearch

SpecIndex == InitIndex /\ [][NextIndex]_vars

(* A new process: FAISSManager.__init__ runs load_index, which reads the   *)
(* index file and the sidecar mapping file                                 *)
FAISSManager___init__ ==
  /\ impl = "memory_manager" /\ ~simple_mode
  /\ faiss_manager' = load_index(faiss_disk)
  /\ last' = [op |-> "index_init", raised |-> FALSE,
              removed |-> IF "removed" \in DOMAIN last THEN last.removed ELSE {}]
  /\ UNCHANGED <<asyncVars, impl, simple_mode, memories, disk_memories, faiss_disk,
                 memory_graph, graph_disk, assocVars, used>>

DoIndexInit == FAISSManager___init__

NextIndexRestart ==
  \/ DoIndexAdd
  \/ DoIndexRemove
  \/ DoIndexSearch
  \/ DoIndexInit

SpecIndexRestart == InitIndex /\ [][NextIndexRestart]_vars

----------------------------------------------------------------------------
(* The AssociationGraph on its own: the methods of MemoryGraph called with *)
(* any IDs.  Each mutating method ends with save_graph.                    *)

MemoryGraph_add_memory(memory_id) ==
  /\ impl = "memory_manager" /\ ~simple_mode
  /\ memory_graph' = Graph_add_memory(memory_graph, memory_id)
  /\ graph_disk' = save_graph(memory_graph')
  /\ last' = [op |-> "graph_add_memory", raised |-> FALSE]
  /\ UNCHANGED <<asyncVars, impl, simple_mode, memories, disk_memories, faiss_manager,
                 faiss_disk, assocVars, used>>

(* last.neighbors: the neighbours of the node before the call *)
MemoryGraph_remove_memory(memory_id) ==
  /\ impl = "memory_manager" /\ ~simple_mode
  /\ memory_graph' = Graph_remove_memory(memory_graph, memory_id)
  /\ graph_disk' = IF InGraph(memory_graph, memory_id)
                   THEN save_graph(memory_graph') ELSE graph_disk
  /\ last' = [op |-> "graph_remove_memory", raised |-> FALSE, id |-> memory_id,
              neighbors |-> IF InGraph(memory_graph, memory_id)
                            THEN {memory_graph.adj[memory_id][i].nb :
                                    i \in DOMAIN memory_graph.adj[memory_id]}
                            ELSE {}]
  /\ UNCHANGED <<asyncVars, impl, simple_mode, memories, disk_memories, faiss_manager,
                 faiss_disk, assocVars, used>>

MemoryGraph_add_association(memory_id_1, memory_id_2, relation_type, strength) ==
  /\ impl = "memory_manager" /\ ~simple_mode
  /\ LET r == Graph_add_association(memory_graph, memory_id_1, memory_id_2,
                                    relation_type, strength)
     IN /\ memory_graph' = r.g
        /\ graph_disk' = IF r.ret THEN save_graph(r.g) ELSE graph_disk
        /\ last' = [op |-> "graph_add_association", raised |-> FALSE,
                    id1 |-> memory_id_1, id2 |-> memory_id_2, ret |-> r.ret]
  /\ UNCHANGED <<asyncVars, impl, simple_mode, memories, disk_memories, faiss_manager,
                 faiss_disk, assocVars, used>>

MemoryGraph_remove_association(memory_id_1, memory_id_2) ==
  /\ impl = "memory_manager" /\ ~simple_mode
  /\ LET r == Graph_remove_association(memory_graph, memory_id_1, memory_id_2)
     IN /\ memory_graph' = r.g
        /\ graph_disk' = IF r.ret THEN save_graph(r.g) ELSE graph_disk
        /\ last' = [op |-> "graph_remove_association", raised |-> FALSE, ret |-> r.ret]
  /\ UNCHANGED <<asyncVars, impl, simple_mode, memories, disk_memories, faiss_manager,
                 faiss_disk, assocVars, used>>

(* A new process: MemoryGraph.__init__ runs load_graph *)
MemoryGraph___init__ ==
  /\ impl = "memory_manager" /\ ~simple_mode
  /\ memory_graph' = load_graph(graph_disk)
  /\ last' = [op |-> "graph_init", raised |-> FALSE]
  /\ UNCHANGED <<asyncVars, impl, simple_mode, memories, disk_memories, faiss_manager,
                 faiss_disk, graph_disk, assocVars, used>>

DoGraphAddMemory == \E id \in IDs : MemoryGraph_add_memory(id)

DoGraphRemoveMemory == \E id \in IDs : MemoryGraph_remove_memory(id)

DoGraphAddAssociation ==
  \E a \in IDs, b \in IDs : MemoryGraph_add_association(a, b, "related", <<4, 5>>)

DoGraphRemoveAssociation ==
  \E a \in IDs, b \in IDs : MemoryGraph_remove_association(a, b)

DoGraphInit == MemoryGraph___init__

NextGraph ==
  \/ DoGraphAddMemory
  \/ DoGraphRemoveMemory
  \/ DoGraphAddAssociation
  \/ DoGraphRemoveAssociation
  \/ DoGraphInit

SpecGraph == InitIndex /\ [][NextGraph]_vars

----------------------------------------------------------------------------
(* The plugin store with auto-association: contents whose keyword sets     *)
(* have Jaccard indexes 0, 1/4, 1/3, 1/2, 2/3 and 1, and contents without  *)
(* a keyword                                                                *)
KeywordContents ==
  {<<>>, <<"a">>, <<"a", "b">>, <<"a", "c">>, <<"a", "c", "d">>}

DoPluginAddAuto ==
  \E content \in KeywordContents : Plugin_add_memory(content, 5, None, TRUE, "ok")

NextAutoAssoc ==
  \/ DoPluginAddAuto
  \/ DoPluginDelete
  \/ DoPluginInit

SpecAutoAssoc == InitPlugin /\ [][NextAutoAssoc]_vars

----------------------------------------------------------------------------
(* MemoryClassifier (memory_classifier.py) and the choice add_memory makes *)
(* from its result.  A mapping of categories to scores is the sequence of  *)
(* its <<category, score>> items in the order of the dict; scores are in   *)
(* tenths.                                                                 *)

(* result[k] = v on a dict: a present key keeps its place, a new one goes  *)
(* to the end                                                              *)
DictPut(d, k, v) ==
  IF \E i \in DOMAIN d : d[i][1] = k
  THEN [i \in DOMAIN d |-> IF d[i][1] = k THEN <<k, v>> ELSE d[i]]
  ELSE Append(d, <<k, v>>)

_simple_classify(text, categories) ==
  LET any(words) == \E w \in words : Contains(w, text)
      r0 == [i \in DOMAIN categories |-> <<categories[i], 0>>]
      r1 == DictPut(r0, "other", 5)
      r2 == IF any({<<"shi">>, <<"you">>, <<"zai">>, <<"shu", "yu">>})
            THEN DictPut(DictPut(r1, "fact", 1), "other", 3) ELSE r1
      r3 == IF any({<<"ren", "wei">>, <<"jue", "de">>, <<"xiang">>, <<"ying", "gai">>})
            THEN DictPut(DictPut(r2, "opinion", 5), "other", 3) ELSE r2
      r4 == IF any({<<"xi", "huan">>, <<"tao", "yan">>, <<"ai">>, <<"hen">>})
            THEN DictPut(DictPut(r3, "preference", 2), "other", 3) ELSE r3
  IN IF any({<<"zuo", "tian">>, <<"jin", "tian">>, <<"ming", "tian">>,
             <<"xiao", "shi">>, <<"fen", "zhong">>})
     THEN DictPut(DictPut(r4, "event", 3), "other", 3) ELSE r4

(* classify: the rule-based mapping without torch; with torch the scores   *)
(* of the model, one per category in the order of categories, which are    *)
(* all 0.0 when the model is not loaded or the inference raises            *)
classify(text, categories, has_torch, model_scores) ==
  IF ~has_torch THEN _simple_classify(text, categories)
  ELSE [i \in DOMAIN categories |-> <<categories[i], model_scores[i]>>]

(* Variant of max_by_score that returns the last item of maximum score *)
max_by_score_Last(items) ==
  items[CHOOSE i \in DOMAIN items :
          /\ \A j \in DOMAIN items : items[j][2] <= items[i][2]
          /\ \A j \in DOMAIN items : j > i => items[j][2] < items[i][2]][1]

(* max(classification.items(), key=lambda x: x[1])[0]: max returns the     *)
(* first item of maximum key                                               *)
max_by_score(items) ==
  items[CHOOSE i \in DOMAIN items :
          /\ \A j \in DOMAIN items : items[j][2] <= items[i][2]
          /\ \A j \in DOMAIN items : j < i => items[j][2] < items[i][2]][1]

(* add_memory(content, importance) with memory_type None and auto_classify *)
(* true, the classifier called as add_memory calls it.  categories is the  *)
(* configured category list of the classifier.                             *)
FM_add_memory_classify(content, importance, categories, has_torch, model_scores) ==
  /\ impl = "memory_manager"
  /\ used # IDs
  /\ ~simple_mode => faiss_manager.ntotal < MaxSlots
  /\ LET memory_id == FreshId
         classification == classify(content, categories, has_torch, model_scores)
         memory_type == IF ~simple_mode THEN max_by_score(classification) ELSE None
         memory == [id |-> memory_id, content |-> content,
                    importance |-> Max(0, Min(10, importance)),
                    type |-> IF memory_type = None THEN "other" ELSE memory_type,
                    created_at |-> now, decay |-> 0]
         mems == DictSet(memories, memory)
         fr == IF simple_mode THEN [fm |-> faiss_manager, ret |-> FALSE]
               ELSE FAISS_add_memory(faiss_manager, memory_id, TRUE)
         g == IF ~simple_mode THEN Graph_add_memory(memory_graph, memory_id)
              ELSE memory_graph
     IN /\ memories' = mems
        /\ faiss_manager' = fr.fm
        /\ faiss_disk' = IF fr.ret THEN save_index(fr.fm) ELSE faiss_disk
        /\ memory_graph' = g
        /\ graph_disk' = IF ~simple_mode THEN save_graph(g) ELSE graph_disk
        /\ disk_memories' = save_memories(mems, disk_memories, "ok")
        /\ used' = used \cup {memory_id}
        /\ last' = [op |-> "add_classify", ret |-> memory_id, raised |-> FALSE,
                    categories |-> categories,
                    classification |-> IF simple_mode THEN <<>> ELSE classification]
        /\ UNCHANGED <<asyncVars, impl, simple_mode, assocVars>>

(* The default category list of memory_manager.py and a configured list in *)
(* another order                                                           *)
CategoryLists ==
  {<<"fact", "opinion", "preference", "event", "other">>,
   <<"other", "event", "preference", "opinion", "fact">>}

(* Scores of the model: all zero, two categories at the maximum, one       *)
(* category above the others                                               *)
ModelScores ==
  {[i \in 1..5 |-> 0],
   [i \in 1..5 |-> IF i \in {2, 4} THEN 5 ELSE 0],
   [i \in 1..5 |-> IF i = 3 THEN 5 ELSE 2]}

ClassifiedContents ==
  {<<"t">>, <<"shi">>, <<"xiang">>, <<"ai">>, <<"jin", "tian">>, <<"shi", "jin", "tian">>}

DoFMAddClassify ==
  \E content \in ClassifiedContents, categories \in CategoryLists,
     has_torch \in BOOLEAN :
    \E model_scores \in IF has_torch THEN ModelScores ELSE {[i \in 1..5 |-> 0]} :
      FM_add_memory_classify(content, 5, categories, has_torch, model_scores)

NextClassify ==
  \/ DoFMAddClassify
  \/ DoFMInit

SpecClassify == InitFM /\ [][NextClassify]_vars

----------------------------------------------------------------------------
(* The request slots of the plugin store (main.py) under asyncio: one step *)
(* is the code a coroutine runs between two awaits.  pc[c] is the await at *)
(* which caller c is suspended: "wait_lock" in `async with                 *)
(* self._request_lock`, "sleep" in asyncio.sleep inside the lock,          *)
(* "text_chat" in provider.text_chat of ai_auto_extract, "organize" in     *)
(* provider.text_chat of organize_memories.  _request_lock is the          *)
(* asyncio.Lock: its holder (0: none) and its waiters in arrival order.    *)

(* _release_request_slot *)
_release_request_slot(n) == Max(0, n - 1)

(* The body of `async with self._request_lock` run by caller c once it has *)
(* the lock, up to its next await: the slot is taken and the lock released *)
(* when a slot is free, otherwise c sleeps with the lock held.             *)
(* has_provider: _get_model_for_task returns a provider; without one       *)
(* ai_auto_extract returns through its finally clause.                     *)
_acquire_request_slot(c, waiters, has_provider) ==
  IF _concurrent_requests >= max_concurrent_requests
  THEN /\ _request_lock' = [holder |-> c, waiters |-> waiters]
       /\ pc' = [pc EXCEPT ![c] = "sleep"]
       /\ UNCHANGED _concurrent_requests
  ELSE /\ _request_lock' = [holder |-> 0, waiters |-> waiters]
       /\ IF has_provider
          THEN /\ _concurrent_requests' = _concurrent_requests + 1
               /\ pc' = [pc EXCEPT ![c] = "text_chat"]
          ELSE /\ _concurrent_requests' = _release_request_slot(_concurrent_requests + 1)
               /\ pc' = [pc EXCEPT ![c] = "idle"]

(* ai_auto_extract is called: asyncio.Lock.acquire returns at once when    *)
(* the lock is free and nobody waits for it, and suspends the caller       *)
(* behind the other waiters otherwise                                      *)
ai_auto_extract_call(c, has_provider) ==
  /\ impl = "main"
  /\ pc[c] = "idle"
  /\ IF _request_lock.holder = 0 /\ _request_lock.waiters = <<>>
     THEN _acquire_request_slot(c, <<>>, has_provider)
     ELSE /\ _request_lock' = [_request_lock EXCEPT !.waiters = Append(@, c)]
          /\ pc' = [pc EXCEPT ![c] = "wait_lock"]
          /\ UNCHANGED _concurrent_requests
  /\ UNCHANGED <<impl, simple_mode, memories, disk_memories, fmVars, assocVars, used, last>>

(* The lock was released and c is its first waiter *)
ai_auto_extract_locked(c, has_provider) ==
  /\ impl = "main"
  /\ pc[c] = "wait_lock"
  /\ _request_lock.holder = 0
  /\ Head(_request_lock.waiters) = c
  /\ _acquire_request_slot(c, Tail(_request_lock.waiters), has_provider)
  /\ UNCHANGED <<impl, simple_mode, memories, disk_memories, fmVars, assocVars, used, last>>

(* asyncio.sleep(0.1) is over and the loop condition is false *)
ai_auto_extract_woken(c, has_provider) ==
  /\ impl = "main"
  /\ pc[c] = "sleep"
  /\ _concurrent_requests < max_concurrent_requests
  /\ _acquire_request_slot(c, _request_lock.waiters, has_provider)
  /\ UNCHANGED <<impl, simple_mode, memories, disk_memories, fmVars, assocVars, used, last>>

(* provider.text_chat returns or raises.  outcome "content": one line of   *)
(* the response is long enough and is added as a record; "empty": none is; *)
(* "raise": text_chat raised.  The finally clause releases the slot.       *)
ai_auto_extract_done(c, outcome) ==
  /\ impl = "main"
  /\ pc[c] = "text_chat"
  /\ IF outcome = "content"
     THEN add_memory_store(<<"t">>, 7, "ai_extracted", TRUE, "ok")
     ELSE UNCHANGED <<impl, simple_mode, memories, disk_memories, fmVars, assocVars, used, last>>
  /\ _concurrent_requests' = _release_request_slot(_concurrent_requests)
  /\ pc' = [pc EXCEPT ![c] = "idle"]
  /\ UNCHANGED _request_lock

(* The task of c is cancelled: CancelledError is raised at its await,      *)
(* `async with` releases the lock if c holds it, a waiter leaves the queue *)
(* of the lock, and the finally clause of ai_auto_extract runs             *)
ai_auto_extract_cancelled(c) ==
  /\ impl = "main"
  /\ pc[c] \in {"wait_lock", "sleep", "text_chat"}
  /\ _request_lock' =
       [holder |-> IF _request_lock.holder = c THEN 0 ELSE _request_lock.holder,
        waiters |-> SelectSeq(_request_lock.waiters, LAMBDA w : w # c)]
  /\ _concurrent_requests' = _release_request_slot(_concurrent_requests)
  /\ pc' = [pc EXCEPT ![c] = "idle"]
  /\ UNCHANGED <<impl, simple_mode, memories, disk_memories, fmVars, assocVars, used, last>>

(* organize_memories with one task: it awaits provider.text_chat *)
organize_memories_call(c) ==
  /\ impl = "main"
  /\ pc[c] = "idle"
  /\ pc' = [pc EXCEPT ![c] = "organize"]
  /\ UNCHANGED <<impl, simple_mode, memories, disk_memories, fmVars, assocVars, used, last,
                 _concurrent_requests, _request_lock>>

(* text_chat of organize_memories returns, raises or is cancelled *)
organize_memories_done(c) ==
  /\ impl = "main"
  /\ pc[c] = "organize"
  /\ pc' = [pc EXCEPT ![c] = "idle"]
  /\ UNCHANGED <<impl, simple_mode, memories, disk_memories, fmVars, assocVars, used, last,
                 _concurrent_requests, _request_lock>>

DoExtractCall == \E c \in Callers, has_provider \in BOOLEAN : ai_auto_extract_call(c, has_provider)

DoExtractLocked == \E c \in Callers : ai_auto_extract_locked(c, TRUE)

DoExtractWoken == \E c \in Callers : ai_auto_extract_woken(c, TRUE)

(* A response with a line to store is drawn only while the store of the    *)
(* model has room for a record                                             *)
ExtractDone(c) ==
  \E outcome \in {"content", "empty", "raise"} :
    /\ outcome = "content" => used # IDs
    /\ ai_auto_extract_done(c, outcome)

DoExtractDone == \E c \in Callers : ExtractDone(c)

DoExtractCancelled == \E c \in Callers : ai_auto_extract_cancelled(c)

DoOrganizeCall == \E c \in Callers : organize_memories_call(c)

DoOrganizeDone == \E c \in Callers : organize_memories_done(c)

NextSlots ==
  \/ DoExtractCall
  \/ DoExtractLocked
  \/ DoExtractWoken
  \/ DoExtractDone
  \/ DoExtractCancelled
  \/ DoOrganizeCall
  \/ DoOrganizeDone

SpecSlots == InitPlugin /\ [][NextSlots]_vars

(* The request slots under the scheduling of the event loop: a coroutine   *)
(* whose await has completed is resumed (the lock passes to its first      *)
(* waiter, a sleep ends), and while a text_chat of ai_auto_extract is in   *)
(* flight one of them returns or raises in the end.  At most one caller at *)
(* a time is the first waiter of the lock, and at most one sleeps inside   *)
(* it.  Nothing obliges a task to be cancelled.                            *)
SpecSlotsFair ==
  /\ InitPlugin
  /\ [][NextSlots]_vars
  /\ WF_vars(DoExtractLocked)
  /\ WF_vars(DoExtractWoken)
  /\ WF_vars(DoExtractDone)

----------------------------------------------------------------------------
(* Foreground mutations of the plugin store together with the background   *)
(* AI extraction.  Each mutating method of main.py is synchronous: it runs *)
(* from its first line to its return without an await, so it is one step.  *)

(* Variant of update_memory that does not refresh last_accessed *)
Plugin_update_memory_NoTouch(memory_id, kwargs) ==
  /\ impl = "main"
  /\ LET found == memory_id \in Keys(memories)
         mems == IF ~found THEN memories
                 ELSE DictSet(memories, kwargs @@ Lookup(memories, memory_id))
     IN /\ memories' = mems
        /\ disk_memories' = IF found THEN save_memories(mems, disk_memories, "ok")
                            ELSE disk_memories
        /\ last' = [op |-> "update", ret |-> found, raised |-> FALSE, id |-> memory_id,
                    kwargs |-> kwargs]
  /\ UNCHANGED <<asyncVars, impl, simple_mode, fmVars, assocVars, used>>

(* update_memory(memory_id, **kwargs): memory.update(kwargs), then          *)
(* last_accessed, then save_memories.  kwargs is a record of the supplied  *)
(* fields; its field stored_id stands for the keyword id, which replaces   *)
(* the "id" entry of the record while the record stays under its key.  A   *)
(* record that was never updated has no field last_accessed in the model:  *)
(* its value is that of created_at.                                        *)
Plugin_update_memory(memory_id, kwargs) ==
  /\ impl = "main"
  /\ LET found == memory_id \in Keys(memories)
         memory == Lookup(memories, memory_id)
         mems == IF ~found THEN memories
                 ELSE DictSet(memories, [last_accessed |-> now] @@ kwargs @@ memory)
     IN /\ memories' = mems
        /\ disk_memories' = IF found THEN save_memories(mems, disk_memories, "ok")
                            ELSE disk_memories
        /\ last' = [op |-> "update", ret |-> found, raised |-> FALSE, id |-> memory_id,
                    kwargs |-> kwargs]
  /\ UNCHANGED <<asyncVars, impl, simple_mode, fmVars, assocVars, used>>

(* The loop over results["categorization"] *)
RECURSIVE ApplyCategorization(_, _, _)
ApplyCategorization(mems, items, n) ==
  IF items = <<>> THEN [mems |-> mems, n |-> n]
  ELSE LET item == Head(items)
       IN IF item.memory_id \in Keys(mems)
          THEN ApplyCategorization(
                 DictSet(mems, [Lookup(mems, item.memory_id) EXCEPT
                                  !.type = item.suggested_category]),
                 Tail(items), n + 1)
          ELSE ApplyCategorization(mems, Tail(items), n)

(* The loop over results["importance_suggestions"].  A suggestion is      *)
(* <<"num", v>> for a JSON number and <<"str", s>> for a JSON string that  *)
(* float() does not parse: float() raises on it, which ends                *)
(* apply_organization_results in its except clause.                        *)
RECURSIVE ApplyImportance(_, _, _)
ApplyImportance(mems, items, n) ==
  IF items = <<>> THEN [mems |-> mems, n |-> n, raised |-> FALSE]
  ELSE LET item == Head(items)
       IN IF item.memory_id \notin Keys(mems)
          THEN ApplyImportance(mems, Tail(items), n)
          ELSE IF item.suggested_importance[1] = "str"
          THEN [mems |-> mems, n |-> n, raised |-> TRUE]
          ELSE IF 0 <= item.suggested_importance[2] /\ item.suggested_importance[2] <= 10
          THEN ApplyImportance(
                 DictSet(mems, [Lookup(mems, item.memory_id) EXCEPT
                                  !.importance = item.suggested_importance[2]]),
                 Tail(items), n + 1)
          ELSE ApplyImportance(mems, Tail(items), n)

(* The loop over results["associations"] *)
RECURSIVE ApplyAssociations(_, _, _, _)
ApplyAssociations(assoc, mems, items, n) ==
  IF items = <<>> THEN [assoc |-> assoc, n |-> n]
  ELSE LET item == Head(items)
       IN IF item.memory_id_1 \in Keys(mems) /\ item.memory_id_2 \in Keys(mems)
          THEN ApplyAssociations(
                 Assoc_add_association(assoc, item.memory_id_1, item.memory_id_2,
                                       item.relation_strength),
                 mems, Tail(items), n + 1)
          ELSE ApplyAssociations(assoc, mems, Tail(items), n)

(* apply_organization_results: the three loops inside try, then the two    *)
(* saves when something was applied (add_association has saved the         *)
(* associations already, a created association counts as applied).  An     *)
(* exception leaves what was applied so far unsaved.                       *)
Plugin_apply_organization_results(results) ==
  /\ impl = "main"
  /\ LET c == ApplyCategorization(memories, results.categorization, 0)
         i == ApplyImportance(c.mems, results.importance_suggestions, 0)
         a == IF i.raised THEN [assoc |-> associations, n |-> 0]
              ELSE ApplyAssociations(associations, i.mems, results.associations, 0)
         saved == ~i.raised /\ c.n + i.n + a.n > 0
     IN /\ memories' = i.mems
        /\ associations' = a.assoc
        /\ disk_memories' = IF saved THEN save_memories(i.mems, disk_memories, "ok")
                            ELSE disk_memories
        /\ disk_associations' = IF saved THEN save_associations(a.assoc)
                                ELSE disk_associations
        /\ last' = [op |-> "apply_organization", raised |-> FALSE,
                    ret |-> <<c.n, i.n, a.n>>, failed |-> i.raised]
  /\ UNCHANGED <<asyncVars, impl, simple_mode, fmVars, used>>

DoPluginAddForeground == Plugin_add_memory(<<"t">>, 7, "ai_extracted", TRUE, "ok")

DoPluginUpdate == \E memory_id \in IDs : Plugin_update_memory(memory_id, [importance |-> 8])

(* Results of one organization run: a categorization followed by an        *)
(* importance suggestion that float() rejects, an importance suggestion    *)
(* alone, and an association alone                                         *)
OrganizationResults ==
  {[categorization |-> <<[memory_id |-> 1, suggested_category |-> "event"]>>,
    importance_suggestions |-> <<[memory_id |-> 1, suggested_importance |-> v]>>,
    associations |-> <<>>] : v \in {<<"str", "bad">>, <<"num", 17>>}}
  \cup
  {[categorization |-> <<>>,
    importance_suggestions |-> <<[memory_id |-> 1, suggested_importance |-> <<"num", 8>>]>>,
    associations |-> <<>>],
   [categorization |-> <<>>,
    importance_suggestions |-> <<>>,
    associations |-> <<[memory_id_1 |-> 1, memory_id_2 |-> MaxIds,
                        relation_strength |-> <<1, 2>>]>>]}

DoPluginApplyOrganization ==
  \E results \in OrganizationResults : Plugin_apply_organization_results(results)

DoPluginImportOne ==
  \E file \in {f \in PluginImportFiles : Len(f) = 1 /\ f[1].id = 1} :
    Plugin_import_data(file, TRUE)

(* auto_extract_with_model: asyncio.create_task(_async_ai_extract(...)),   *)
(* whose body is ai_auto_extract; the task starts at its first await.      *)
auto_extract_with_model(c) == ai_auto_extract_call(c, TRUE)

(* Two messages are enough for one background task to meet the other at    *)
(* the lock and at the slot counter.                                       *)
DoAutoExtractWithModel == \E c \in {1, 2} : auto_extract_with_model(c)

NextMutations ==
  \/ DoPluginAddForeground
  \/ DoPluginDelete
  \/ DoPluginUpdate
  \/ DoPluginImportOne
  \/ DoPluginApplyOrganization
  \/ DoAutoExtractWithModel
  \/ DoExtractLocked
  \/ DoExtractWoken
  \/ DoExtractDone
  \/ DoExtractCancelled

SpecMutations == InitPlugin /\ [][NextMutations]_vars

----------------------------------------------------------------------------
(* MemoryExtractor (memory_extractor.py).  A text is a sequence of          *)
(* characters; "." and "?" stand for the separators of the split pattern,   *)
(* " " for white space, "1" for a digit; "wo" and "ni" are personal         *)
(* pronouns, "ma" with "?" and "shen", "me" the question marks of the       *)
(* context rule.  Scores are in tenths: every sum the rule can form, added  *)
(* in the order of the code in binary floating point, is at or just above   *)
(* its decimal value, so its comparison with a threshold of whole tenths    *)
(* is that of the tenths.  The model takes extract_keywords = False.        *)

Separators == {".", "?"}

(* re.split(r'[...]', text): the pieces between separators, empty ones      *)
(* included                                                                *)
RECURSIVE re_split(_, _)
re_split(text, piece) ==
  IF text = <<>> THEN <<piece>>
  ELSE IF Head(text) \in Separators
       THEN <<piece>> \o re_split(Tail(text), <<>>)
       ELSE re_split(Tail(text), Append(piece, Head(text)))

(* str.strip() *)
RECURSIVE strip(_)
strip(s) ==
  IF s = <<>> THEN s
  ELSE IF Head(s) = " " THEN strip(Tail(s))
  ELSE IF s[Len(s)] = " " THEN strip(SubSeq(s, 1, Len(s) - 1))
  ELSE s

_split_into_sentences(text) ==
  LET sentences == re_split(text, <<>>)
  IN SelectSeq([i \in DOMAIN sentences |-> strip(sentences[i])], LAMBDA s : s # <<>>)

(* Variant of _calculate_importance that returns the sum without min(.., 1.0) *)
_calculate_importance_NoClamp(sentence, conversation_context) ==
  LET any(words, s) == \E w \in words : Contains(w, s)
      users == {i \in DOMAIN conversation_context : conversation_context[i].role = "user"}
  IN 1 + (IF any({<<"wo">>, <<"ni">>, <<"ta">>}, sentence) THEN 2 ELSE 0)
       + (IF any({<<"xi", "huan">>, <<"ai">>, <<"hen">>}, sentence) THEN 3 ELSE 0)
       + (IF any({<<"ren", "wei">>, <<"xiang", "yao">>}, sentence) THEN 2 ELSE 0)
       + (IF any({<<"1">>}, sentence) THEN 1 ELSE 0)
       + (IF users # {} /\ any({<<"ma", "?">>, <<"shen", "me">>},
                               conversation_context[CHOOSE i \in users :
                                                      \A j \in users : j <= i].content)
          THEN 2 ELSE 0)

(* _calculate_importance: the base 0.1 and the five additions in the order  *)
(* of the code; conversation_context is <<>> for None and for an empty      *)
(* list; last_user_message is the content of the last message of role      *)
(* "user" (None when users is empty), and an empty content adds nothing.    *)
_calculate_importance(sentence, conversation_context) ==
  LET any(words, s) == \E w \in words : Contains(w, s)
      i0 == 1
      i1 == IF any({<<"wo">>, <<"ni">>, <<"ta">>}, sentence) THEN i0 + 2 ELSE i0
      i2 == IF any({<<"xi", "huan">>, <<"ai">>, <<"hen">>}, sentence) THEN i1 + 3 ELSE i1
      i3 == IF any({<<"ren", "wei">>, <<"xiang", "yao">>}, sentence) THEN i2 + 2 ELSE i2
      i4 == IF \E k \in DOMAIN sentence : sentence[k] = "1" THEN i3 + 1 ELSE i3
      users == {i \in DOMAIN conversation_context : conversation_context[i].role = "user"}
      last_user_message ==
        conversation_context[CHOOSE i \in users : \A j \in users : j <= i].content
      i5 == IF conversation_context # <<>> /\ users # {}
               /\ last_user_message # <<>>
               /\ any({<<"ma", "?">>, <<"shen", "me">>}, last_user_message)
            THEN i4 + 2 ELSE i4
  IN Min(i5, 10)

(* _determine_memory_type: the first keyword group of the if / elif chain   *)
(* that has a word in the sentence                                         *)
_determine_memory_type(sentence) ==
  LET any(words) == \E w \in words : Contains(w, sentence)
  IN IF any({<<"shi">>, <<"you">>, <<"zai">>, <<"shu", "yu">>}) THEN "fact"
     ELSE IF any({<<"ren", "wei">>, <<"jue", "de">>, <<"xiang">>, <<"ying", "gai">>})
     THEN "opinion"
     ELSE IF any({<<"xi", "huan">>, <<"tao", "yan">>, <<"ai">>, <<"hen">>})
     THEN "preference"
     ELSE IF any({<<"zuo", "tian">>, <<"jin", "tian">>, <<"ming", "tian">>,
                  <<"xiao", "shi">>, <<"fen", "zhong">>})
     THEN "event"
     ELSE "other"

RECURSIVE extract_candidates(_, _, _)
extract_candidates(sentences, conversation_context, min_importance) ==
  IF sentences = <<>> THEN <<>>
  ELSE LET sentence == Head(sentences)
           importance == _calculate_importance(sentence, conversation_context)
           rest == extract_candidates(Tail(sentences), conversation_context,
                                      min_importance)
       IN IF importance >= min_importance
          THEN <<[content |-> sentence, importance |-> importance,
                  type |-> _determine_memory_type(sentence)]>> \o rest
          ELSE rest

extract_from_text(text, conversation_context, min_importance) ==
  extract_candidates(_split_into_sentences(text), conversation_context, min_importance)

(* One call of extract_from_text on an extractor built with min_importance *)
Extractor_extract_from_text(text, conversation_context, min_importance) ==
  /\ impl = "memory_manager"
  /\ last' = [op |-> "extract", raised |-> FALSE, text |-> text,
              context |-> conversation_context, min_importance |-> min_importance,
              ret |-> extract_from_text(text, conversation_context, min_importance)]
  /\ UNCHANGED <<asyncVars, impl, simple_mode, memories, disk_memories, fmVars,
                 assocVars, used>>

ExtractorTexts ==
  {<<>>, <<"x">>, <<"1">>, <<"wo">>, <<"ai">>, <<"xiang", "yao">>, <<"xiang">>,
   <<"wo", "ai", "1">>, <<"wo", "xiang", "yao", "1">>,
   <<"wo", "ai", "xiang", "yao">>, <<"wo", "ai", "xiang", "yao", "1">>,
   <<"wo", ".", " ", "x", " ", "?", "ai", "1">>, <<" ", ".", "?">>,
   <<"jin", "tian", "1", ".", "shi">>}

ExtractorContexts ==
  {<<>>,
   <<[role |-> "user", content |-> <<"shen", "me">>]>>,
   <<[role |-> "user", content |-> <<"x">>]>>,
   <<[role |-> "user", content |-> <<"x", "ma", "?">>],
     [role |-> "assistant", content |-> <<"x">>]>>,
   <<[role |-> "assistant", content |-> <<"shen", "me">>]>>,
   <<[role |-> "user", content |-> <<>>]>>}

MinImportanceSettings == {0, 3, 6, 10}

DoExtractFromText ==
  \E text \in ExtractorTexts, conversation_context \in ExtractorContexts,
     min_importance \in MinImportanceSettings :
    Extractor_extract_from_text(text, conversation_context, min_importance)

NextExtractor ==
  \/ DoExtractFromText
  \/ DoFMInit

SpecExtractor == InitFM /\ [][NextExtractor]_vars

----------------------------------------------------------------------------
(* Updates of the plugin store among adds with automatic association and   *)
(* deletes                                                                 *)
UpdateFields ==
  {EmptyMap, [content |-> <<"a", "d">>], [type |-> "fact", importance |-> 2]}

DoPluginAddForUpdate == Plugin_add_memory(<<"a", "b">>, 5, None, TRUE, "ok")

DoPluginUpdateFields ==
  \E memory_id \in IDs, kwargs \in UpdateFields : Plugin_update_memory(memory_id, kwargs)

NextUpdate ==
  \/ DoPluginAddForUpdate
  \/ DoPluginUpdateFields
  \/ DoPluginDelete

SpecUpdate == InitPlugin /\ [][NextUpdate]_vars

----------------------------------------------------------------------------
(* The operations of the plugin store that write records: add, update with *)
(* any keyword (id among them), import of a JSON file whose keys need not  *)
(* be the "id" entries of their records, delete and the application of    *)
(* organization results                                                    *)
DoPluginUpdateAny ==
  \E memory_id \in IDs, kwargs \in {[importance |-> 8]} \cup {[stored_id |-> v] : v \in IDs} :
    Plugin_update_memory(memory_id, kwargs)

KeyedImportFiles ==
  {<<[id |-> k, content |-> <<"T", "shi">>, importance |-> 10, type |-> "other",
      created_at |-> 0]>> : k \in IDs}
  \cup
  {<<[id |-> 1, content |-> <<"T", "shi">>, importance |-> 10, type |-> "other",
      created_at |-> 0, stored_id |-> MaxIds]>>}

DoPluginImportKeyed ==
  \E file \in KeyedImportFiles : Plugin_import_data(file, TRUE)

NextIdentity ==
  \/ DoPluginAddForeground
  \/ DoPluginUpdateAny
  \/ DoPluginImportKeyed
  \/ DoPluginDelete
  \/ DoPluginApplyOrganization

SpecIdentity == InitPlugin /\ [][NextIdentity]_vars

----------------------------------------------------------------------------
(* The association table of the plugin store under add_association,        *)
(* remove_association, the automatic association of an add and             *)
(* delete_memory                                                           *)

(* MemoryAssociationManager.remove_association with its save *)
AssociationManager_remove_association(memory_id, related_id) ==
  /\ impl = "main"
  /\ associations' = Assoc_remove_association(associations, memory_id, related_id)
  /\ disk_associations' = save_associations(associations')
  /\ last' = [op |-> "remove_association", ret |-> TRUE, raised |-> FALSE,
              a |-> memory_id, b |-> related_id,
              was |-> (memory_id \in DOMAIN associations
                       /\ related_id \in DOMAIN associations[memory_id])]
  /\ UNCHANGED <<asyncVars, impl, simple_mode, memories, disk_memories, fmVars, used>>

DoAssociationRemove ==
  \E a \in IDs, b \in IDs : AssociationManager_remove_association(a, b)

DoPluginAddAssociated ==
  \E content \in {<<"a", "b">>, <<"a", "c">>} :
    Plugin_add_memory(content, 5, None, TRUE, "ok")

DoAssociationAdd ==
  \E a \in IDs, b \in IDs : Plugin_add_manual_association(a, b, <<1, 2>>)

NextSymmetry ==
  \/ DoPluginAddAssociated
  \/ DoAssociationAdd
  \/ DoAssociationRemove
  \/ DoPluginDelete

SpecSymmetry == InitPlugin /\ [][NextSymmetry]_vars

----------------------------------------------------------------------------
(* The type the extractor gives a sentence, next to the mapping the        *)
(* rule-based classifier returns for the same text and the default         *)
(* categories                                                              *)
DefaultCategories == <<"fact", "opinion", "preference", "event", "other">>

Extractor__determine_memory_type(sentence) ==
  /\ impl = "memory_manager"
  /\ last' = [op |-> "determine_type", raised |-> FALSE, sentence |-> sentence,
              ret |-> _determine_memory_type(sentence),
              classification |-> _simple_classify(sentence, DefaultCategories)]
  /\ UNCHANGED <<asyncVars, impl, simple_mode, memories, disk_memories, fmVars,
                 assocVars, used>>

(* Sentences of up to three characters over a keyword of each group and a  *)
(* character of no group, and sentences with the event keyword and two or  *)
(* three other groups: every combination of the four groups occurs.        *)
TypedSentences ==
  UNION {[1..n -> {"shi", "xiang", "ai", "jin", "tian", "x"}] : n \in 0..3}
  \cup {<<"jin", "tian", "shi", "xiang">>, <<"jin", "tian", "shi", "ai">>,
        <<"jin", "tian", "xiang", "ai">>, <<"shi", "xiang", "ai", "jin", "tian">>}

DoDetermineType ==
  \E sentence \in TypedSentences : Extractor__determine_memory_type(sentence)

NextTyping ==
  \/ DoDetermineType
  \/ DoFMInit

SpecTyping == InitFM /\ [][NextTyping]_vars

----------------------------------------------------------------------------
(* Start-up with the outcome of reading memories.json as an input.         *)
(* load_memories wraps open and json.load in one try block; "raises": one  *)
(* of them raised although the file is on the disk with its records, and   *)
(* the except clause sets self.memories = {}.                              *)
LoadOutcomes == {"ok", "raises"}

load_memories_outcome(disk, loadOutcome) ==
  IF loadOutcome = "raises" THEN <<>> ELSE load_memories(disk)

FM___init___load(simple, loadOutcome) ==
  /\ impl = "memory_manager"
  /\ simple_mode' = simple
  /\ faiss_manager' = IF simple THEN NewFaiss ELSE load_index(faiss_disk)
  /\ memory_graph' = IF simple THEN NewGraph ELSE load_graph(graph_disk)
  /\ memories' = load_memories_outcome(disk_memories, loadOutcome)
  /\ last' = [op |-> "init", raised |-> FALSE, load |-> loadOutcome]
  /\ UNCHANGED <<asyncVars, impl, disk_memories, faiss_disk, graph_disk, assocVars, used>>

Plugin___init___load(loadOutcome) ==
  /\ impl = "main"
  /\ memories' = load_memories_outcome(disk_memories, loadOutcome)
  /\ associations' = load_associations(disk_associations)
  /\ last' = [op |-> "init", raised |-> FALSE, load |-> loadOutcome]
  /\ UNCHANGED <<asyncVars, impl, simple_mode, disk_memories, disk_associations, fmVars, used>>

DoFMInitLoad ==
  \E loadOutcome \in LoadOutcomes : FM___init___load(simple_mode, loadOutcome)

DoPluginInitLoad ==
  \E loadOutcome \in LoadOutcomes : Plugin___init___load(loadOutcome)

DoFMAddForLoad ==
  FMAddFrom({<<"t">>, <<"u">>}, {5}, {"other"}, {"ok"}, {"ok"}, {"ok"})

DoPluginAddForLoad ==
  \E content \in {<<"t">>, <<"u">>} :
    Plugin_add_memory(content, 5, None, TRUE, "ok")

(* Both stores: start-up whose load can fail, add, and in the plugin store *)
(* delete; every write of memories.json succeeds                           *)
NextLoad ==
  \/ DoFMAddForLoad
  \/ DoFMInitLoad
  \/ DoPluginAddForLoad
  \/ DoPluginInitLoad
  \/ DoPluginDelete

SpecLoad == Init /\ [][NextLoad]_vars

----------------------------------------------------------------------------
(* Properties *)

(* C1: in the FAISS/graph-backed store every ID of the vector index       *)
(* mapping (a key of id_to_index, a value of index_to_id) and every node   *)
(* of the association graph is a key of memories.                          *)
AuxiliaryIdsInStore ==
  impl = "memory_manager" =>
    /\ DOMAIN faiss_manager.id_to_index \subseteq Keys(memories)
    /\ {faiss_manager.index_to_id[k] : k \in DOMAIN faiss_manager.index_to_id}
         \subseteq Keys(memories)
    /\ Range(memory_graph.nodes) \subseteq Keys(memories)

(* C2: in the plugin store, once delete_memory(id) has returned true, id  *)
(* is not a key of memories, not a key of the association table and not in *)
(* the neighbour map of any other ID.                                      *)
DeleteCascades ==
  (impl = "main" /\ last.op = "delete" /\ last.ret) =>
    /\ last.id \notin Keys(memories)
    /\ last.id \notin DOMAIN associations
    /\ \A k \in DOMAIN associations : last.id \notin DOMAIN associations[k]

(* A delete that returned true for a record that had an association to    *)
(* another record, which is still in the table.                            *)
DeleteCascadesWitness ==
  /\ impl = "main" /\ last.op = "delete" /\ last.ret
  /\ \E k \in last.related_ids : k # last.id /\ k \in DOMAIN associations

(* C3: delete of a stored ID returns true and delete of an absent ID       *)
(* returns false, neither raises; a delete that returns false (the second  *)
(* of two deletes of one ID, or the delete of an ID never stored) leaves   *)
(* memories, the association table and both files unchanged.               *)
DeleteIdempotent ==
  [][last'.op = "delete" =>
       /\ ~last'.raised
       /\ last'.ret = (last'.id \in Keys(memories))
       /\ last'.repeated => ~last'.ret
       /\ ~last'.ret => UNCHANGED <<memories, associations, disk_memories,
                                    disk_associations>>]_vars

(* The second of two consecutive deletes of an ID that was stored *)
DeleteIdempotentWitness ==
  /\ impl = "main" /\ last.op = "delete" /\ last.repeated /\ ~last.ret
  /\ last.id \in used /\ memories # <<>>

(* C4: in the plugin store no association has an endpoint that is absent  *)
(* from memories: every key of the association table that has a neighbour  *)
(* and every neighbour is a key of memories.                               *)
AssociationEndpointsInStore ==
  impl = "main" =>
    \A k \in DOMAIN associations : \A r \in DOMAIN associations[k] :
      k \in Keys(memories) /\ r \in Keys(memories)

(* C5: when add has returned an ID, the memories file holds the mapping    *)
(* that is in memory, the new record included, and a reload yields it.     *)
AddWriteThrough ==
  last.op = "add" =>
    /\ ~last.raised
    /\ last.ret \in Keys(memories)
    /\ disk_memories = memories
    /\ last.ret \in Keys(load_memories(disk_memories))
    /\ Lookup(load_memories(disk_memories), last.ret) = Lookup(memories, last.ret)

(* C6: in the FAISS/graph-backed store add_memory with non-empty content   *)
(* does not raise, appends exactly one record with the returned ID and the *)
(* given content to memories and writes the file, whatever the outcomes of *)
(* the vector index insertion and of the graph insertion.                  *)
AddSurvivesAuxiliaryFailure ==
  [][(impl = "memory_manager" /\ last'.op = "add" /\ last'.content # <<>>) =>
       /\ ~last'.raised
       /\ last'.ret \notin Keys(memories)
       /\ last'.ret \in Keys(memories')
       /\ memories' = Append(memories, Lookup(memories', last'.ret))
       /\ Lookup(memories', last'.ret).content = last'.content
       /\ disk_memories' = memories']_vars

(* An add during which both auxiliary insertions raised *)
AddSurvivesAuxiliaryFailureWitness ==
  /\ impl = "memory_manager" /\ last.op = "add" /\ last.content # <<>>
  /\ last.faiss = "raise" /\ last.graph = "raise"
  /\ last.ret \in Keys(memories)
  /\ last.ret \notin DOMAIN faiss_manager.id_to_index
  /\ last.ret \notin Range(memory_graph.nodes)

(* C7: add with empty content raises, and no record with empty content is  *)
(* ever created.                                                           *)
EmptyContentRejected ==
  /\ (last.op = "add" /\ last.content = <<>>) => last.raised
  /\ \A i \in DOMAIN memories : memories[i].content # <<>>

(* C8: the importance stored by add is min(1, max(0, importance)), in      *)
(* tenths min(10, max(0, importance)); every record's importance is in     *)
(* [0, 1].                                                                 *)
ImportanceClamped ==
  /\ last.op = "add" =>
       Lookup(memories, last.ret).importance
         = (IF last.importance > 10 THEN 10
            ELSE IF last.importance < 0 THEN 0 ELSE last.importance)
  /\ \A i \in DOMAIN memories : memories[i].importance \in 0..10

(* C9: in the FAISS-backed store, when the embedding raises or the vector *)
(* index is unavailable, search_memories with use_semantic = true answers  *)
(* by the keyword path: it returns min(limit, number of matches) distinct  *)
(* records, each containing the query case-insensitively and passing the   *)
(* filters, and no omitted match is more important than a returned one.    *)
KeywordFallback ==
  impl = "memory_manager" =>
    /\ \A query \in Queries, limit \in Limits, min_importance \in MinImportances,
          memory_type \in Types \cup {None} :
         LET ret == search_memories(memories, faiss_manager, simple_mode, query, limit,
                                    min_importance, memory_type, TRUE, FALSE, <<>>)
             matches == {m \in Range(memories) :
                           /\ Contains(Lower(query), Lower(m.content))
                           /\ m.importance >= min_importance
                           /\ (memory_type = None \/ m.type = memory_type)}
         IN /\ Range(ret) \subseteq matches
            /\ Len(ret) = Min(limit, Cardinality(matches))
            /\ Cardinality(Range(ret)) = Len(ret)
            /\ \A m \in matches \ Range(ret) : \A i \in DOMAIN ret :
                 ret[i].importance >= m.importance
    /\ (last.op = "search" /\ ~last.semantic_up) =>
         LET matches == {m \in Range(memories) :
                           Contains(Lower(last.query), Lower(m.content))}
         IN /\ ~last.raised
            /\ Range(last.ret) \subseteq matches
            /\ Len(last.ret) = Min(last.limit, Cardinality(matches))

(* A search with the embedding failing, over a non-empty vector index,     *)
(* that returned a record whose content matches the query in another case  *)
KeywordFallbackWitness ==
  /\ impl = "memory_manager" /\ ~simple_mode
  /\ last.op = "search" /\ ~last.semantic_up /\ last.use_semantic
  /\ faiss_manager.ntotal > 0
  /\ \E i \in DOMAIN last.ret :
       /\ ~Contains(last.query, last.ret[i].content)
       /\ Contains(Lower(last.query), Lower(last.ret[i].content))

(* C10: in the FAISS-backed store, when limit is at least the number of    *)
(* stored records, search_memories with use_semantic = true returns every  *)
(* record that contains the query case-insensitively and passes the        *)
(* filters, whatever slots the vector index returns.                       *)
KeywordNeverStarved ==
  impl = "memory_manager" =>
    \A query \in Queries, limit \in Limits, min_importance \in MinImportances,
       memory_type \in Types \cup {None}, encodeOk \in BOOLEAN :
      limit >= Len(memories) =>
        \A hits \in IF encodeOk /\ ~simple_mode
                    THEN HitLists(faiss_manager, 2 * limit) ELSE {<<>>} :
          LET ret == search_memories(memories, faiss_manager, simple_mode, query,
                                     limit, min_importance, memory_type, TRUE,
                                     encodeOk, hits)
          IN \A m \in Range(memories) :
               (/\ Contains(Lower(query), Lower(m.content))
                /\ m.importance >= min_importance
                /\ (memory_type = None \/ m.type = memory_type))
               => m \in Range(ret)

(* C11: in both stores every record a search returns has an importance of *)
(* at least the min_importance of the call and, when a memory_type was     *)
(* given, that type.                                                       *)
SearchHonoursFilters ==
  last.op = "search" =>
    \A i \in DOMAIN last.ret :
      /\ last.ret[i].importance >= last.min_importance
      /\ last.memory_type # None => last.ret[i].type = last.memory_type

(* C12: the sequence a search returns has at most limit elements, is in   *)
(* non-increasing order of importance, and of two returned records of      *)
(* equal importance the one with the larger created_at comes first.        *)
SearchOrdered ==
  last.op = "search" =>
    /\ Len(last.ret) <= last.limit
    /\ \A i, j \in DOMAIN last.ret :
         i < j =>
           /\ last.ret[i].importance >= last.ret[j].importance
           /\ last.ret[i].importance = last.ret[j].importance
                => last.ret[i].created_at >= last.ret[j].created_at

(* C13: in the FAISS-backed store, when the vector index holds every      *)
(* stored record and exactly one stored record contains the query, a       *)
(* semantic search without filters returns exactly that record.            *)
SearchReturnsOnlyMatches ==
  (/\ impl = "memory_manager" /\ last.op = "search"
   /\ last.use_semantic /\ last.semantic_up
   /\ last.min_importance = 0 /\ last.memory_type = None) =>
    LET indexed == {faiss_manager.index_to_id[k] :
                      k \in {x \in DOMAIN faiss_manager.index_to_id : x[1] = "int"}}
        matches == {m \in Range(memories) :
                      Contains(Lower(last.query), Lower(m.content))}
    IN (Keys(memories) \subseteq indexed /\ Cardinality(matches) = 1)
         => Range(last.ret) = matches /\ Len(last.ret) = 1

(* C14: in both stores get_associated_memories(id, limit) returns the     *)
(* min(limit, number of live neighbours) strongest neighbours of id whose  *)
(* records are in the store, in non-increasing order of strength; the      *)
(* neighbours without a record do not lower that number.                   *)
AssociatedStrongestLive ==
  last.op = "get_associated" =>
    LET nbs == IF impl = "main"
               THEN IF last.id \in DOMAIN associations
                    THEN {[id |-> r, strength |-> associations[last.id][r]] :
                            r \in DOMAIN associations[last.id]}
                    ELSE {}
               ELSE IF InGraph(memory_graph, last.id)
                    THEN {[id |-> e.nb, strength |-> e.strength] :
                            e \in Range(memory_graph.adj[last.id])}
                    ELSE {}
        live == {n \in nbs : n.id \in Keys(memories)}
        ret == [i \in DOMAIN last.ret |->
                  [id |-> last.ret[i].memory.id, strength |-> last.ret[i].strength]]
    IN /\ Len(ret) = Min(last.limit, Cardinality(live))
       /\ Range(ret) \subseteq live
       /\ \A i, j \in DOMAIN ret :
            i < j => ret[i].strength[1] * ret[j].strength[2]
                       >= ret[j].strength[1] * ret[i].strength[2]
       /\ \A n \in live \ Range(ret) : \A i \in DOMAIN ret :
            ret[i].strength[1] * n.strength[2] >= n.strength[1] * ret[i].strength[2]

(* C15: in both stores an import leaves every record the store held       *)
(* before it as it was, whatever the file holds for its ID, and adds only  *)
(* records whose ID the store did not hold.                                *)
ImportFirstWriterWins ==
  [][last'.op = "import" =>
       /\ Len(memories') >= Len(memories)
       /\ \A i \in DOMAIN memories : memories'[i] = memories[i]
       /\ \A j \in (Len(memories) + 1)..Len(memories') :
            memories'[j].id \notin Keys(memories)]_vars

(* An import that merged a new record from a file which also held, under  *)
(* the ID of a stored record, a record different from the stored one       *)
ImportFirstWriterWinsWitness ==
  /\ last.op = "import" /\ last.new # {}
  /\ last.kept # {} /\ last.kept \subseteq Keys(memories)

(* C16: in the FAISS/graph-backed store with the vector index and the     *)
(* graph constructed, after an import that returned true every record it   *)
(* merged is in the mapping of the vector index and is a node of the graph. *)
ImportedRecordsIndexed ==
  (impl = "memory_manager" /\ ~simple_mode /\ last.op = "import" /\ last.ret = TRUE) =>
    \A id \in last.new :
      /\ id \in DOMAIN faiss_manager.id_to_index
      /\ InGraph(memory_graph, id)

(* C17: in both stores and for both formats, importing the file an export *)
(* wrote into an empty store gives a store with the IDs of the exporting   *)
(* store and, under each ID, the same content, type and importance.        *)
ExportImportRoundTrip ==
  (last.op = "export" /\ last.ret) =>
    LET restored ==
          IF impl = "main"
          THEN PluginMerge(<<>>, DataExportManager_import_memories(last.file, last.format))
          ELSE LET imported == read_imported_memories(last.file, last.format)
               IN ImportMerge([memories |-> <<>>, fm |-> NewFaiss, fdisk |-> NewFaiss,
                               g |-> NewGraph, gdisk |-> save_graph(NewGraph),
                               raised |-> FALSE],
                              imported, simple_mode, Keys(imported), 0).memories
    IN /\ Keys(restored) = Keys(memories)
       /\ \A id \in Keys(memories) :
            /\ Lookup(restored, id).content = Lookup(memories, id).content
            /\ Lookup(restored, id).type = Lookup(memories, id).type
            /\ Lookup(restored, id).importance = Lookup(memories, id).importance

(* C18: a prune of a store that holds more than max_memories records      *)
(* leaves exactly max_memories of them, each as it was, and none of the    *)
(* discarded records has a score importance * (1 - decay) above that of a  *)
(* retained one.                                                           *)
PruneKeepsTopScores ==
  [][(last'.op = "prune" /\ Len(memories) > max_memories) =>
       /\ Len(memories') = max_memories
       /\ Range(memories') \subseteq Range(memories)
       /\ \A r \in Range(memories'), d \in Range(memories) \ Range(memories') :
            r.importance * (10 - r.decay) >= d.importance * (10 - d.decay)]_vars

(* A prune that discarded a record of higher importance than a record it  *)
(* retained, the discarded one having decayed                              *)
PruneKeepsTopScoresWitness ==
  /\ last.op = "prune" /\ Len(memories) = max_memories
  /\ \E d \in last.discarded, r \in Range(memories) :
       d.importance > r.importance /\ d.decay > 0

(* C19: in the FAISS/graph-backed store, after a synchronization pass in  *)
(* which every embedding succeeded and no graph insertion raised, the IDs  *)
(* of the vector index's mapping, in either direction, and the nodes of    *)
(* the graph are exactly the keys of the store.                            *)
SyncReconciles ==
  (/\ impl = "memory_manager" /\ ~simple_mode
   /\ last.op = "prune" /\ ~last.raised /\ last.embedded) =>
    /\ DOMAIN faiss_manager.id_to_index = Keys(memories)
    /\ {faiss_manager.index_to_id[k] : k \in DOMAIN faiss_manager.index_to_id}
         = Keys(memories)
    /\ DOMAIN memory_graph.adj = Keys(memories)

(* C20: in the FAISS/graph-backed store, after any sequence of add and    *)
(* import operations the store holds at most max_memories records.         *)
RetentionCeiling ==
  impl = "memory_manager" => Len(memories) <= max_memories

(* C21: in the vector index, once remove_memory(id) has returned true and  *)
(* id has not been added again, search_similar returns no hit whose        *)
(* memory_id is id; remove_memory of an ID without a mapping returns false *)
(* and changes neither the index nor its files.                            *)
RemovedIdUnreachable ==
  [][/\ last'.op = "index_search" =>
          \A i \in DOMAIN last'.ret : last'.ret[i] \notin last'.removed
     /\ (last'.op = "index_remove" /\ last'.id \notin DOMAIN faiss_manager.id_to_index) =>
          (~last'.ret /\ UNCHANGED <<faiss_manager, faiss_disk>>)]_vars

(* C22: a restart of the vector index (a fresh load of the index file and  *)
(* of the mapping file, whose JSON keys are strings) changes the result of *)
(* no search: every list of slots the index can return is resolved to the  *)
(* same IDs after the load as before it.                                   *)
IndexSurvivesRestart ==
  [][last'.op = "index_init" =>
       \A k \in {1, MaxSlots} : \A hits \in HitLists(faiss_manager, k) :
         FAISS_search_similar(faiss_manager', TRUE, hits)
           = FAISS_search_similar(faiss_manager, TRUE, hits)]_vars

(* C23: the association graph holds no dangling edge.  After every call of *)
(* add_memory, add_association, remove_association or remove_memory both   *)
(* endpoints of every edge are nodes; after remove_memory(A) no node has A *)
(* among its neighbours; add_association with an endpoint that is not a    *)
(* node returns false and leaves the graph and its file unchanged.         *)
NoDanglingEdge ==
  [][/\ \A n \in DOMAIN memory_graph'.adj : \A i \in DOMAIN memory_graph'.adj[n] :
          memory_graph'.adj[n][i].nb \in DOMAIN memory_graph'.adj
     /\ last'.op = "graph_remove_memory" =>
          /\ last'.id \notin DOMAIN memory_graph'.adj
          /\ \A n \in DOMAIN memory_graph'.adj : \A i \in DOMAIN memory_graph'.adj[n] :
               memory_graph'.adj[n][i].nb # last'.id
     /\ (/\ last'.op = "graph_add_association"
         /\ ~(InGraph(memory_graph, last'.id1) /\ InGraph(memory_graph, last'.id2))) =>
          (~last'.ret /\ UNCHANGED <<memory_graph, graph_disk>>)]_vars

(* remove_memory has removed a node that had another node as neighbour,    *)
(* and that neighbour is still a node                                      *)
NoDanglingEdgeWitness ==
  /\ last.op = "graph_remove_memory"
  /\ \E b \in last.neighbors : b # last.id /\ InGraph(memory_graph, b)

(* C24: when add_memory of the plugin store runs with auto-association,    *)
(* then for every record m that was in the store before the call the new   *)
(* record and m are associated afterwards exactly when the Jaccard index   *)
(* of their keyword sets (defined when one of them has a keyword) is at    *)
(* least 3/10; the strength is then that index, recorded under both IDs.   *)
AutoAssociationByJaccard ==
  [][(impl = "main" /\ last'.op = "add") =>
       \A i \in DOMAIN memories :
         LET new == last'.ret
             m == memories[i]
             inter == Cardinality(Range(last'.content) \cap Range(m.content))
             union == Cardinality(Range(last'.content) \cup Range(m.content))
             linked(x, y) == x \in DOMAIN associations' /\ y \in DOMAIN associations'[x]
         IN /\ linked(new, m.id) <=> (union > 0 /\ 10 * inter >= 3 * union)
            /\ linked(new, m.id) =>
                 /\ linked(m.id, new)
                 /\ associations'[new][m.id][1] * union = inter * associations'[new][m.id][2]
                 /\ associations'[m.id][new] = associations'[new][m.id]]_vars

(* an add has associated the new record with a stored one at a strength    *)
(* below 1                                                                 *)
AutoAssociationByJaccardWitness ==
  /\ impl = "main" /\ last.op = "add"
  /\ last.ret \in DOMAIN associations
  /\ \E i \in DOMAIN memories :
       /\ memories[i].id \in DOMAIN associations[last.ret]
       /\ associations[last.ret][memories[i].id][1] < associations[last.ret][memories[i].id][2]

(* C25: when add_memory is called without a type and with auto_classify,   *)
(* and the classifier has returned a mapping, the stored type is a         *)
(* category whose score in that mapping is the maximum, and of the         *)
(* categories at the maximum it is the first in the configured order.      *)
AutoClassifyArgmax ==
  (last.op = "add_classify" /\ last.classification # <<>>) =>
    LET stored == Lookup(memories, last.ret).type
        items == last.classification
        score(c) == items[CHOOSE i \in DOMAIN items : items[i][1] = c][2]
        pos(c) == CHOOSE i \in DOMAIN last.categories : last.categories[i] = c
        keys == {items[i][1] : i \in DOMAIN items}
        top == {c \in keys : \A d \in keys : score(d) <= score(c)}
    IN /\ stored \in top
       /\ \A c \in top : pos(stored) <= pos(c)

(* a record was classified from a mapping in which two categories share    *)
(* the maximum score                                                       *)
AutoClassifyArgmaxWitness ==
  /\ last.op = "add_classify"
  /\ \E i, j \in DOMAIN last.classification :
       /\ i # j
       /\ last.classification[i][2] = last.classification[j][2]
       /\ \A k \in DOMAIN last.classification :
            last.classification[k][2] <= last.classification[i][2]
  /\ Lookup(memories, last.ret).type # last.categories[1]

(* C26: the number of calls of provider.text_chat in flight, from AI       *)
(* extraction and AI organization together, never exceeds                  *)
(* max_concurrent_requests, and the slot counter equals the number of      *)
(* callers that have acquired a slot and not released it, whatever the     *)
(* interleaving and with callers cancelled or failing.                     *)
RequestSlotsBounded ==
  /\ Cardinality({c \in Callers : pc[c] \in {"text_chat", "organize"}})
       <= max_concurrent_requests
  /\ _concurrent_requests = Cardinality({c \in Callers : pc[c] = "text_chat"})

(* C27: a caller that asks for a request slot while                        *)
(* max_concurrent_requests callers hold one is suspended (it neither fails *)
(* nor goes on to its text_chat), and when holders release their slots in  *)
(* the end and scheduling is fair every suspended caller acquires a slot   *)
(* in the end, unless it is cancelled first.                               *)
SlotWaitersServed ==
  /\ [][\A c \in Callers :
          (/\ pc[c] = "idle" /\ pc'[c] \notin {"idle", "organize"}
           /\ Cardinality({h \in Callers : pc[h] = "text_chat"}) >= max_concurrent_requests)
            => pc'[c] \in {"wait_lock", "sleep"}]_vars
  /\ \A c \in Callers :
       (pc[c] \in {"wait_lock", "sleep"}) ~> (pc[c] \in {"text_chat", "idle"})

(* C28: mutations of the plugin store are critical sections under one      *)
(* mutual-exclusion lock.  Every step that changes the records, the        *)
(* associations or their files, whether it is a foreground add, delete,    *)
(* update, import or application of organization results or the add of the *)
(* background AI extraction, is taken while the lock of the store is held. *)
MutationsUnderLock ==
  [][(\/ memories' # memories
      \/ disk_memories' # disk_memories
      \/ associations' # associations
      \/ disk_associations' # disk_associations)
       => _request_lock.holder # 0]_vars

(* C29: a failure of memories.json is reported as a value.  When the write *)
(* at the end of an add has failed (the file is not the mapping in         *)
(* memory), the add has not raised, the record it added is still in        *)
(* memory, and its caller is told: the value returned is false and not the *)
(* ID of a record.  A restart that cannot read the file does not raise.    *)
SaveFailureReported ==
  /\ (last.op = "add" /\ disk_memories # memories) =>
       /\ ~last.raised
       /\ \E i \in DOMAIN memories : memories[i].content = last.content
       /\ last.ret \notin Keys(memories)
  /\ last.op = "init" => ~last.raised /\ (disk_memories = Unparseable => memories = <<>>)

(* C30: the importance that filtering, ranking and pruning use for a       *)
(* record is importance * (1 - min(0.9, 0.1 * days)), days being the time  *)
(* elapsed since created_at.  For every record of the store and every      *)
(* number of elapsed days up to MaxDays: the key of the prune order is     *)
(* that value, and the record passes the filter of a search with a         *)
(* minimum importance exactly when that value is at least the minimum      *)
(* (values in hundredths, importance and decay being in tenths).           *)
EffectiveImportanceDecays ==
  \A i \in DOMAIN memories : \A days \in 0..MaxDays :
    LET r == memories[i]
        effective == r.importance * (10 - Min(9, days))
    IN /\ r.importance * (10 - r.decay) = effective
       /\ \A min_importance \in 0..10 :
            _passes_filters(r, min_importance, None) <=> effective >= 10 * min_importance

(* C31: after a call of extract_from_text, every sentence of the text has   *)
(* the score min(1, 0.1 + 0.2 [personal pronoun] + 0.3 [emotion word] +     *)
(* 0.2 [cognition or modal verb] + 0.1 [digit] + 0.2 [the last user message *)
(* of the context asks a question]); the candidates returned are, in        *)
(* order, exactly the sentences whose score is at least min_importance,     *)
(* each with that score, which lies between min_importance and 1.           *)
ExtractorScoreRule ==
  last.op = "extract" =>
    LET has(words, s) == \E w \in words : Contains(w, s)
        users == {i \in DOMAIN last.context : last.context[i].role = "user"}
        bonus == /\ users # {}
                 /\ has({<<"ma", "?">>, <<"shen", "me">>},
                        last.context[CHOOSE i \in users : \A j \in users : j <= i].content)
        score(s) ==
          LET sum == 1 + (IF has({<<"wo">>, <<"ni">>, <<"ta">>}, s) THEN 2 ELSE 0)
                       + (IF has({<<"xi", "huan">>, <<"ai">>, <<"hen">>}, s) THEN 3 ELSE 0)
                       + (IF has({<<"ren", "wei">>, <<"xiang", "yao">>}, s) THEN 2 ELSE 0)
                       + (IF has({<<"1">>}, s) THEN 1 ELSE 0)
                       + (IF bonus THEN 2 ELSE 0)
          IN IF sum > 10 THEN 10 ELSE sum
        sentences == _split_into_sentences(last.text)
        emitted == SelectSeq(sentences, LAMBDA s : score(s) >= last.min_importance)
    IN /\ Len(last.ret) = Len(emitted)
       /\ \A i \in DOMAIN last.ret :
            /\ last.ret[i].content = emitted[i]
            /\ last.ret[i].importance = score(emitted[i])
            /\ last.min_importance <= last.ret[i].importance
            /\ last.ret[i].importance <= 10

(* A text of three sentences of which two were emitted, one of them with   *)
(* a score equal to min_importance, and one was not                         *)
ExtractorScoreRuleWitness ==
  /\ last.op = "extract"
  /\ Len(_split_into_sentences(last.text)) = 3
  /\ Len(last.ret) = 2
  /\ \E i \in DOMAIN last.ret : last.ret[i].importance = last.min_importance

(* C32: an update of an ID of the store returns true, gives the record the *)
(* supplied fields and a new last_accessed and nothing else, and leaves    *)
(* the other records, their order, the association table and the vector    *)
(* index as they were, also when the content is among the supplied fields. *)
(* An update of an ID that is not in the store returns false without       *)
(* raising and changes neither the records nor memories.json.              *)
UpdateSetsSuppliedFields ==
  [][last'.op = "update" =>
       IF last'.id \in Keys(memories)
       THEN LET old == Lookup(memories, last'.id)
                new == Lookup(memories', last'.id)
                kw == last'.kwargs
            IN /\ last'.ret = TRUE /\ ~last'.raised
               /\ Len(memories') = Len(memories)
               /\ \A i \in DOMAIN memories :
                    /\ memories'[i].id = memories[i].id
                    /\ memories[i].id # last'.id => memories'[i] = memories[i]
               /\ DOMAIN new = DOMAIN old \cup DOMAIN kw \cup {"last_accessed"}
               /\ \A f \in DOMAIN kw : new[f] = kw[f]
               /\ new.last_accessed = now
               /\ \A f \in DOMAIN old \ (DOMAIN kw \cup {"last_accessed"}) : new[f] = old[f]
               /\ associations' = associations
               /\ faiss_manager' = faiss_manager
       ELSE /\ last'.ret = FALSE /\ ~last'.raised
            /\ memories' = memories
            /\ disk_memories' = disk_memories]_vars

(* An update of the content of one of two associated records *)
UpdateSetsSuppliedFieldsWitness ==
  /\ last.op = "update" /\ last.ret
  /\ "content" \in DOMAIN last.kwargs
  /\ Len(memories) = 2
  /\ DOMAIN associations # {}
  /\ Lookup(memories, last.id).content = <<"a", "d">>

(* C33: the identity of a record does not change.  After every add,        *)
(* update, import, delete and application of organization results each     *)
(* record of the store has under "id" the key it is stored under, and the  *)
(* ID an add returns was not a key of the store when add was called.       *)
RecordIdentityImmutable ==
  [][/\ \A i \in DOMAIN memories' :
          LET r == memories'[i]
          IN (IF "stored_id" \in DOMAIN r THEN r.stored_id ELSE r.id) = r.id
     /\ last'.op = "add" => last'.ret \notin Keys(memories)]_vars

(* C34: the association table is symmetric in every state reached by       *)
(* add_association, remove_association, automatic association and          *)
(* delete_memory from an empty table: b is a neighbour of a exactly when a *)
(* is a neighbour of b, and the two entries hold the same strength.        *)
AssociationTableSymmetric ==
  \A a \in DOMAIN associations : \A b \in DOMAIN associations[a] :
    /\ b \in DOMAIN associations
    /\ a \in DOMAIN associations[b]
    /\ associations[b][a] = associations[a][b]

(* The removal of an association between two different IDs that was in the *)
(* table, a strength below 1 being left in it                              *)
AssociationTableSymmetricWitness ==
  /\ last.op = "remove_association" /\ last.was /\ last.a # last.b
  /\ last.a \in DOMAIN associations
  /\ last.b \notin DOMAIN associations[last.a]
  /\ \E a \in DOMAIN associations : \E b \in DOMAIN associations[a] :
       associations[a][b] = <<1, 2>>

(* C35: in one process the two mappings of the vector index are inverse to *)
(* each other after every add and remove: id_to_index maps an ID to a slot *)
(* exactly when index_to_id maps that slot to the ID.                      *)
IndexMappingsInverse ==
  /\ \A id \in DOMAIN faiss_manager.id_to_index :
       /\ <<"int", faiss_manager.id_to_index[id]>> \in DOMAIN faiss_manager.index_to_id
       /\ faiss_manager.index_to_id[<<"int", faiss_manager.id_to_index[id]>>] = id
  /\ \A s \in DOMAIN faiss_manager.index_to_id :
       /\ faiss_manager.index_to_id[s] \in DOMAIN faiss_manager.id_to_index
       /\ faiss_manager.id_to_index[faiss_manager.index_to_id[s]] = s[2]

(* C36: the extractor and the rule-based classifier assign the same type:  *)
(* for every sentence the type _determine_memory_type returns is the       *)
(* category of highest score, the first in the order of the default        *)
(* categories among equals, of the mapping _simple_classify returns for    *)
(* it.                                                                     *)
ExtractorTypeIsClassifierArgmax ==
  last.op = "determine_type" =>
    \E i \in DOMAIN last.classification :
      /\ last.classification[i][1] = last.ret
      /\ \A j \in DOMAIN last.classification :
           /\ last.classification[j][2] <= last.classification[i][2]
           /\ j < i => last.classification[j][2] < last.classification[i][2]

(* C37: every mutation is persisted.  When an add, an import or a prune    *)
(* has returned, the writes of memories.json succeeding, the file holds    *)
(* the mapping that is in memory, and a restart reloads that mapping.      *)
MutationsPersisted ==
  last.op \in {"add", "import", "prune"} =>
    /\ disk_memories = memories
    /\ load_memories(disk_memories) = memories

(* C38: a failed import is a no-op.  When import_memories of the           *)
(* FAISS/graph-backed store returns false (unsupported format, unreadable  *)
(* file, or an insertion into an auxiliary index that raises during the    *)
(* merge), the records in memory, the vector index, the graph and          *)
(* memories.json are what they were before the call.                       *)
FailedImportIsNoOp ==
  [][(impl = "memory_manager" /\ last'.op = "import" /\ ~last'.ret) =>
       /\ memories' = memories
       /\ faiss_manager' = faiss_manager
       /\ memory_graph' = memory_graph
       /\ disk_memories' = disk_memories]_vars

(* C39: a load failure never destroys persisted data.  No start-up and no  *)
(* add, whether or not an earlier load of memories.json failed, removes    *)
(* from memories.json a record that was in it before the step; only an     *)
(* explicit delete or a prune removes one.                                 *)
LoadFailureKeepsPersisted ==
  [][last'.op \in {"init", "add"} =>
       \A i \in DOMAIN disk_memories :
         \E j \in DOMAIN disk_memories' : disk_memories'[j] = disk_memories[i]]_vars

====
